---- MODULE Spec2Model ----
(***************************************************************************)
(* Model of the delivery and resilience pipeline of go-logging:            *)
(* AsyncHandler (bounded queue + workers), the entry pools, logger,        *)
(* CircuitBreaker, RotatingFileHandler, SamplingHandler, MultiHandler,     *)
(* HealthMonitor and BufferPool.                                           *)
(***************************************************************************)
EXTENDS Integers, Sequences, FiniteSets, TLC

(***************************************************************************)
(* Bounds                                                                  *)
(***************************************************************************)
\* capacity of AsyncHandler.buffer (bufferSize of NewAsyncHandler)
BufferSize == 2
\* number of worker goroutines (workers of NewAsyncHandler)
NumWorkers == 2
\* number of Handle / log calls issued in one behaviour
MaxCalls == 3
\* number of distinct *Entry objects the heap can hold
MaxEntries == 3
\* number of goroutines calling logger.log concurrently
NumProducers == 2
\* largest cb.maxFailures a behaviour starts with
MaxThreshold == 3
\* cb.timeout, in clock ticks
CoolDown == 2
\* number of clock ticks a behaviour runs for
TimeSpan == 4
\* number of Execute calls in one behaviour
MaxExec == 4
\* number of goroutines calling Execute concurrently
NumCallers == 2
\* largest h.maxFiles a behaviour starts with
MaxK == 2
\* h.maxSize, in bytes
RotMaxSize == 4
\* largest len(formatted) of an event
MaxLen == 4
\* number of events written in one behaviour
MaxEvents == 5
\* number of goroutines calling RotatingFileHandler.Handle concurrently
NumWriters == 2
\* number of concurrent RotatingFileHandler.Handle calls in one behaviour
MaxConcEvents == 4
\* number of sequential SamplingHandler.Handle calls in one behaviour
MaxSampleCalls == 100
\* the period of the SamplingHandler's counter test (h.counter%100); a rate
\* is written as the integer p of p/100
Modulus == 100
\* number of SamplingHandler.Handle calls on a wrapped handler that may fail
MaxSampleOut == 5
\* number of concurrent SamplingHandler.Handle calls in one behaviour
MaxSampleConc == 4
\* number of goroutines calling SamplingHandler.Handle concurrently
NumSamplers == 2
\* number of health check names
NumChecks == 2
\* number of ticks the monitor's ticker delivers in one behaviour
MaxRounds == 2
\* number of ticks in one behaviour of the monitor that is never stopped
MaxLiveRounds == 3
\* number of goroutines calling GetEntry / PutEntry
NumHolders == 3
\* number of buffers a BufferPool allocates in one behaviour
MaxBufs == 3
\* number of distinct handlers a MultiHandler may be given
NumSinks == 2
\* longest handler list of a MultiHandler
MaxHandlers == 3

Workers == 1..NumWorkers
Callers == 1..NumCallers
Writers == 1..NumWriters
Samplers == 1..NumSamplers
Names == 1..NumChecks
Holders == 1..NumHolders
Sinks == 1..NumSinks
Calls == 1..MaxCalls
Ptrs == 1..MaxEntries

\* Entry.Message of a reset (zero-valued) entry; a filled entry carries the
\* number of the call that filled it.
NoMsg == 0

\* capacity of a buffer made by the BufferPool's New; BufferPoolSize of
\* DefaultPerformanceConfig
NewCap == 1024
DefaultBufferPoolSize == 1000

\* Level.Value of the zero Level{}, and of the built-in levels
ZeroLevel == 0
DebugLevel == 10
InfoLevel == 20
WarnLevel == 30
ErrorLevel == 40

VARIABLES
  \* ---- AsyncHandler ----
  aBuffer,     \* h.buffer: FIFO of queued items [ptr, call] (call is a ghost tag)
  aStopClosed, \* h.stop has been closed
  aStopPc,     \* position of the goroutine calling Stop: idle / waiting / returned
  aWorker,     \* per worker: [pc: select / handling / exited, item]
  aCall,       \* ghost, per call: how it went through Handle and the wrapped handler
  aIssued,     \* number of Handle calls issued so far
  aAtStop,     \* ghost: calls that were sitting accepted when Stop was called
  \* ---- entry heap and entryPool ----
  eMsg,        \* Entry.Message of every entry object
  eAlloc,      \* entries allocated so far
  ePool,       \* entries currently held by entryPool
  lPend,       \* entries of log calls between handler.Handle and putEntryToPool
  eLevel,      \* Entry.Level.Value of every entry object
  eFields,     \* Entry.Fields of every entry object: nil / empty / set
  eGot,        \* ghost: what the pool's Get has handed out
               \*   [reclaimed, level, msg, fields]
  \* ---- CircuitBreaker ----
  cb,            \* [state, failures, lastFailure] of the breaker, and the
                 \*   ghost events: the (from, to) of every callback invocation
  cbMaxFailures, \* cb.maxFailures
  now,           \* the wall clock read by time.Now / time.Since
  cbLog,         \* ghost: one record per completed sequential Execute call
  cbCaller,      \* per concurrent caller of Execute: [pc, seen]
  cbStarted,     \* number of concurrent Execute calls started
  cbCallback,    \* cb.onStateChange: plain, or reentrant (calls the breaker)
  cbMu,          \* cb.mu held for writing: 0 when free, else the caller
  cbUnlocked,    \* ghost: accesses made without holding cb.mu [field, write]
  \* ---- RotatingFileHandler ----
  rFiles,      \* the directory: index 0 is filename, index i is filename.i
  rHandle,     \* h.currentFile: open / closed
  rSize,       \* h.currentSize
  rMaxFiles,   \* h.maxFiles
  rLog,        \* ghost: content of the active file at each rotation
  rWritten,    \* number of events handed to Handle so far
  rClosed,     \* Close has been called
  rRet,        \* ghost: one record per Handle call, what it returned and did
  rMu,         \* h.mu: 0 when free, else the goroutine holding it
  rG,          \* per goroutine inside Handle: [pc, ev, snap]
  rOrder,      \* ghost: events in the order their calls acquired h.mu
  \* ---- SamplingHandler ----
  sRate,       \* h.rate, as the integer p of rate = p/100
  sCounter,    \* h.counter
  sMu,         \* h.mu: 0 when free, else the goroutine holding it
  sG,          \* per goroutine inside Handle: [pc, saw]
  sStarted,    \* number of Handle calls started
  sDone,       \* ghost: one record per finished call [saw, used, fwd]
  \* ---- HealthMonitor ----
  hChecks,     \* hm.checks: per name "none" or the kind of probe registered
  hResults,    \* hm.results: per name the latest result, or NoResult
  hCancelled,  \* hm.ctx has been cancelled (Stop)
  hMon,         \* the monitor goroutine: notstarted / running / exited
  hTick,       \* a tick is waiting in ticker.C
  hRounds,     \* number of runChecks rounds so far
  hProbes,     \* runCheck goroutines in flight: [name, round, kind, expired]
  hAtStop,     \* ghost: hRounds at the moment Stop was called
  hRet,        \* ghost: last GetOverallHealth call [status, reports, registered]
  \* ---- goroutines using an entry pool directly ----
  eHeld,       \* per goroutine, the entries it got from the pool and holds
  \* ---- MultiHandler ----
  mHandlers,   \* h.handlers, in registration order
  mLast,       \* ghost: the last Handle call [called, handlers, invoked, outs, ret]
  \* ---- logger ----
  lLevel,      \* l.level.Value
  lHandler,    \* l.handler: nil or a handler
  lLast,       \* ghost: the last log call
               \*   [variant, level, at, handler, invoked, seen]
  \* ---- BufferPool ----
  bpMaxSize,   \* bp.maxSize
  bpPool,      \* the buffers in bp.pool: [id, cap, len]
  bpHeld,      \* the buffers Get handed out and not given back
  bpAllocs,    \* number of buffers the pool's New has made
  bpDropped    \* ghost: the buffers Put was given and did not pool

asyncVars == <<aBuffer, aStopClosed, aStopPc, aWorker, aCall, aIssued, aAtStop>>
poolVars == <<eMsg, eAlloc, ePool, lPend>>
cbVars == <<cb, cbMaxFailures, now, cbLog, cbCaller, cbStarted, cbCallback,
            cbMu, cbUnlocked>>
rotVars == <<rFiles, rHandle, rSize, rMaxFiles, rLog, rWritten, rClosed, rRet,
             rMu, rG, rOrder>>
sampVars == <<sRate, sCounter, sMu, sG, sStarted, sDone>>
healthVars == <<hChecks, hResults, hCancelled, hMon, hTick, hRounds, hProbes,
                hAtStop, hRet>>
holdVars == <<eHeld>>
entVars == <<eLevel, eFields, eGot>>
multiVars == <<mHandlers, mLast>>
loggerVars == <<lLevel, lHandler, lLast>>
bufVars == <<bpMaxSize, bpPool, bpHeld, bpAllocs, bpDropped>>
vars == <<asyncVars, poolVars, cbVars, rotVars, sampVars, healthVars, holdVars,
          entVars, multiVars, loggerVars, bufVars>>

\* what the Async Dispatcher and logger.log never touch
notAsync == <<cbVars, rotVars, sampVars, healthVars, holdVars, entVars,
              multiVars, loggerVars, bufVars>>
\* what logger.log with an AsyncHandler never touches
notLog == <<cbVars, rotVars, sampVars, healthVars, holdVars, multiVars,
          loggerVars, bufVars>>
\* what the CircuitBreaker never touches
notBreaker == <<asyncVars, poolVars, rotVars, sampVars, healthVars, holdVars,
   entVars, multiVars, loggerVars, bufVars>>
\* what the RotatingFileHandler never touches
notRotating == <<asyncVars, poolVars, cbVars, sampVars, healthVars, holdVars,
   entVars, multiVars, loggerVars, bufVars>>
\* what the SamplingHandler never touches
notSampling == <<asyncVars, poolVars, cbVars, rotVars, healthVars, holdVars,
   entVars, multiVars, loggerVars, bufVars>>
\* what the HealthMonitor never touches
notHealth == <<asyncVars, poolVars, cbVars, rotVars, sampVars, holdVars,
   entVars, multiVars, loggerVars, bufVars>>
\* what goroutines using the pool directly never touch
notHolders == <<asyncVars, cbVars, rotVars, sampVars, healthVars, multiVars,
          loggerVars, bufVars>>
\* what the MultiHandler never touches
notMulti == <<asyncVars, poolVars, cbVars, rotVars, sampVars, healthVars, holdVars,
              entVars, loggerVars, bufVars>>
\* what the logger with a synchronous handler never touches
notLogger == <<asyncVars, cbVars, rotVars, sampVars, healthVars, holdVars,
               multiVars, bufVars>>
\* what the BufferPool never touches
notBuffers == <<asyncVars, poolVars, cbVars, rotVars, sampVars, healthVars, holdVars,
                entVars, multiVars, loggerVars>>

NoItem == [ptr |-> 0, call |-> 0]

NoCall == [path |-> "none", ret |-> "none", outcome |-> "none", count |-> 0,
           by |-> {}, seen |-> NoMsg, afterStop |-> FALSE]

Outcomes == {"ok", "fail"}

(***************************************************************************)
(* NewAsyncHandler / start: empty buffer, open stop channel, every worker  *)
(* that start launches parked in its select.                               *)
(***************************************************************************)
NewAsyncHandlerWith(workers) ==
  /\ aBuffer = <<>>
  /\ aStopClosed = FALSE
  /\ aStopPc = "idle"
  /\ aWorker = [w \in Workers |->
                  [pc |-> IF w <= workers THEN "select" ELSE "unstarted",
                   item |-> NoItem]]
  /\ aCall = [c \in Calls |-> NoCall]
  /\ aIssued = 0
  /\ aAtStop = {}

NewAsyncHandler == NewAsyncHandlerWith(NumWorkers)

\* entryPool starts empty; sync.Pool.New allocates on a miss.
InitPool ==
  /\ eMsg = [p \in Ptrs |-> NoMsg]
  /\ eAlloc = {}
  /\ ePool = {}
  /\ lPend = {}

\* the entries New will allocate: &Entry{} for entryPool (Fields nil),
\* &Entry{Fields: make(Fields)} for an EntryPool (Fields empty)
InitEntries(fields) ==
  /\ eLevel = [p \in Ptrs |-> ZeroLevel]
  /\ eFields = [p \in Ptrs |-> fields]
  /\ eGot = {}

\* what the caller of Get sees in the entry it is handed
Got(ptr) ==
  [reclaimed |-> ptr \in eAlloc, level |-> eLevel[ptr], msg |-> eMsg[ptr],
   fields |-> eFields[ptr]]

(***************************************************************************)
(* CircuitBreaker: state and constructor                                   *)
(***************************************************************************)
\* time.Time{}: the zero value of cb.lastFailure
ZeroTime == 0
\* the clock starts later than ZeroTime + CoolDown, as any real clock does
StartTime == ZeroTime + CoolDown + 1
EndTime == StartTime + TimeSpan

\* NewCircuitBreaker, then SetStateChangeCallback(callback)
NewCircuitBreakerWith(maxFailures, callback) ==
  /\ cb = [state |-> "closed", failures |-> 0, lastFailure |-> ZeroTime,
           events |-> <<>>]
  /\ cbMaxFailures = maxFailures
  /\ now = StartTime
  /\ cbLog = <<>>
  /\ cbCaller = [k \in Callers |-> [pc |-> "idle", seen |-> "closed", trial |-> FALSE]]
  /\ cbStarted = 0
  /\ cbCallback = callback
  /\ cbMu = 0
  /\ cbUnlocked = {}

\* the callback does not call the breaker
NewCircuitBreaker(maxFailures) == NewCircuitBreakerWith(maxFailures, "plain")

(***************************************************************************)
(* RotatingFileHandler: the directory, and the constructor                 *)
(***************************************************************************)
\* largest index i of a file filename.i the model can hold
MaxIdx == MaxK + 1
FileIdx == 0..MaxIdx

NoFile == [exists |-> FALSE, data |-> <<>>]
File(data) == [exists |-> TRUE, data |-> data]

\* an event on disk is <<id, len(formatted)>>; it takes len + 1 bytes
RECURSIVE DataSize(_)
DataSize(data) ==
  IF data = <<>> THEN 0 ELSE (Head(data)[2] + 1) + DataSize(Tail(data))

\* openFile: os.OpenFile(O_CREATE|O_WRONLY|O_APPEND), then Stat for the size.
\* A failed open creates nothing.
OpenFile(fs, openOk) ==
  IF ~openOk THEN fs
  ELSE IF fs[0].exists THEN fs ELSE [fs EXCEPT ![0] = File(<<>>)]

NewRotatingFileHandler(maxFiles, fs) ==
  /\ rFiles = OpenFile(fs, TRUE)
  /\ rHandle = "open"
  /\ rSize = DataSize(fs[0].data)
  /\ rMaxFiles = maxFiles
  /\ rLog = <<>>
  /\ rWritten = 0
  /\ rClosed = FALSE
  /\ rRet = <<>>
  /\ rMu = 0
  /\ rG = [g \in Writers |-> [pc |-> "idle", ev |-> <<0, 0>>, snap |-> <<>>]]
  /\ rOrder = <<>>

EmptyDir == [i \in FileIdx |-> NoFile]

(***************************************************************************)
(* SamplingHandler: constructor                                            *)
(***************************************************************************)
NewSamplingHandler(p) ==
  /\ sRate = p
  /\ sCounter = 0
  /\ sMu = 0
  /\ sG = [g \in Samplers |-> [pc |-> "idle", saw |-> 0]]
  /\ sStarted = 0
  /\ sDone = <<>>

(***************************************************************************)
(* HealthMonitor: constructor                                              *)
(***************************************************************************)
NoResult == [status |-> "none", timeout |-> FALSE]

\* NewHealthMonitor, followed by AddCheck for the names of checks
NewHealthMonitor(checks, mon) ==
  /\ hChecks = checks
  /\ hResults = [n \in Names |-> NoResult]
  /\ hCancelled = FALSE
  /\ hMon = mon
  /\ hTick = FALSE
  /\ hRounds = 0
  /\ hProbes = {}
  /\ hAtStop = 0
  /\ hRet = [status |-> "none", reports |-> {}, registered |-> FALSE]

NoChecks == [n \in Names |-> "none"]

\* NewMultiHandler(handlers...)
NewMultiHandler(handlers) ==
  /\ mHandlers = handlers
  /\ mLast = [called |-> FALSE, handlers |-> <<>>, invoked |-> <<>>,
              outs |-> <<>>, ret |-> 0]

\* NewLogger(): level info, the console handler
NewLogger ==
  /\ lLevel = InfoLevel
  /\ lHandler = "console"
  /\ lLast = [variant |-> "none", level |-> ZeroLevel, at |-> ZeroLevel,
              handler |-> "nil", invoked |-> 0, seen |-> ZeroLevel]

\* no goroutine holds a pool entry
InitHolders == eHeld = [g \in Holders |-> {}]

(***************************************************************************)
(* BufferPool: constructor                                                 *)
(***************************************************************************)
\* NewBufferPool(maxSize): an empty sync.Pool whose New makes a buffer of
\* length 0 and capacity NewCap
NewBufferPool(maxSize) ==
  /\ bpMaxSize = maxSize
  /\ bpPool = {}
  /\ bpHeld = {}
  /\ bpAllocs = 0
  /\ bpDropped = {}

\* components that take no step in a specification stay as constructed
IdleBreaker == NewCircuitBreaker(1)
IdleRotating == NewRotatingFileHandler(1, EmptyDir)
IdleAsync == NewAsyncHandler /\ InitPool /\ InitEntries("nil")
IdleSampling == NewSamplingHandler(Modulus)
IdleHealth == NewHealthMonitor(NoChecks, "notstarted")
IdleMulti == NewMultiHandler(<<>>)
IdleLogger == NewLogger
IdleBuffers == NewBufferPool(DefaultBufferPoolSize)
IdleExtra == IdleMulti /\ IdleLogger /\ IdleBuffers
IdleRest == IdleSampling /\ IdleHealth /\ InitHolders /\ IdleExtra

(***************************************************************************)
(* The wrapped handler's Handle(entry): it reads the entry it is given.    *)
(* The ghost record notes who invoked it, what message the entry held at   *)
(* that moment and the outcome the wrapped handler produced.               *)
(***************************************************************************)
WrappedHandle(rec, msg, who, out) ==
  [rec EXCEPT !.count = @ + 1, !.by = @ \cup {who}, !.seen = msg, !.outcome = out]

(***************************************************************************)
(* AsyncHandler.Handle: non-blocking send, else synchronous fallback.      *)
(***************************************************************************)
AsyncHandleFabricated(ptr, c, msg, out) ==
  IF Len(aBuffer) < BufferSize
  THEN /\ aBuffer' = Append(aBuffer, [ptr |-> ptr, call |-> c])
       /\ aCall' = [aCall EXCEPT ![c].path = "queued", ![c].ret = "ok",
                                 ![c].afterStop = (aStopPc = "returned")]
  ELSE /\ aBuffer' = aBuffer
       /\ aCall' = [aCall EXCEPT ![c] =
             [WrappedHandle(@, msg, "caller", out) EXCEPT
                 !.path = "sync", !.ret = "ok",
                 !.afterStop = (aStopPc = "returned")]]

AsyncHandle(ptr, c, msg, out) ==
  IF Len(aBuffer) < BufferSize
  THEN /\ aBuffer' = Append(aBuffer, [ptr |-> ptr, call |-> c])
       /\ aCall' = [aCall EXCEPT ![c].path = "queued", ![c].ret = "ok",
                                 ![c].afterStop = (aStopPc = "returned")]
  ELSE /\ aBuffer' = aBuffer
       /\ aCall' = [aCall EXCEPT ![c] =
             [WrappedHandle(@, msg, "caller", out) EXCEPT
                 !.path = "sync", !.ret = out,
                 !.afterStop = (aStopPc = "returned")]]

\* A producer that owns its entry calls AsyncHandler.Handle directly: the
\* entry is a fresh object that is never handed to entryPool.
DirectHandle ==
  /\ aIssued < MaxCalls
  /\ \E ptr \in Ptrs \ eAlloc, out \in Outcomes :
       LET c == aIssued + 1 IN
       /\ eAlloc' = eAlloc \cup {ptr}
       /\ eMsg' = [eMsg EXCEPT ![ptr] = c]
       /\ AsyncHandle(ptr, c, c, out)
       /\ aIssued' = c
  /\ UNCHANGED <<aStopClosed, aStopPc, aWorker, aAtStop, ePool, lPend, notAsync>>

(***************************************************************************)
(* AsyncHandler.worker: select over <-h.buffer and <-h.stop.               *)
(***************************************************************************)
WorkerRecvPeek(w) ==
  /\ aWorker[w].pc = "select"
  /\ aBuffer # <<>>
  /\ aWorker' = [aWorker EXCEPT ![w] = [pc |-> "handling", item |-> Head(aBuffer)]]
  /\ aBuffer' = IF aCall[Head(aBuffer).call].count = 0 THEN aBuffer ELSE Tail(aBuffer)
  /\ UNCHANGED <<aStopClosed, aStopPc, aCall, aIssued, aAtStop, poolVars, notAsync>>

\* case entry := <-h.buffer
WorkerRecv(w) ==
  /\ aWorker[w].pc = "select"
  /\ aBuffer # <<>>
  /\ aWorker' = [aWorker EXCEPT ![w] = [pc |-> "handling", item |-> Head(aBuffer)]]
  /\ aBuffer' = Tail(aBuffer)
  /\ UNCHANGED <<aStopClosed, aStopPc, aCall, aIssued, aAtStop, poolVars, notAsync>>

\* h.handler.Handle(entry); the result is discarded
WorkerHandle(w) ==
  /\ aWorker[w].pc = "handling"
  /\ \E out \in Outcomes :
       LET it == aWorker[w].item IN
       aCall' = [aCall EXCEPT ![it.call] = WrappedHandle(@, eMsg[it.ptr], w, out)]
  /\ aWorker' = [aWorker EXCEPT ![w] = [pc |-> "select", item |-> NoItem]]
  /\ UNCHANGED <<aBuffer, aStopClosed, aStopPc, aIssued, aAtStop, poolVars, notAsync>>

\* case <-h.stop: return (runs the deferred wg.Done). A select with several
\* ready cases picks any one of them, so this is enabled whatever the buffer
\* holds.
WorkerExit(w) ==
  /\ aWorker[w].pc = "select"
  /\ aStopClosed
  /\ aWorker' = [aWorker EXCEPT ![w] = [pc |-> "exited", item |-> NoItem]]
  /\ UNCHANGED <<aBuffer, aStopClosed, aStopPc, aCall, aIssued, aAtStop, poolVars, notAsync>>

(***************************************************************************)
(* AsyncHandler.Stop: close(h.stop), then h.wg.Wait().                     *)
(***************************************************************************)
Accepted == {c \in Calls : aCall[c].path = "queued"}

StopClose ==
  /\ aStopPc = "idle"
  /\ aStopClosed' = TRUE
  /\ aStopPc' = "waiting"
  /\ aAtStop' = Accepted
  /\ UNCHANGED <<aBuffer, aWorker, aCall, aIssued, poolVars, notAsync>>

StopWait ==
  /\ aStopPc = "waiting"
  /\ \A w \in Workers : aWorker[w].pc \in {"exited", "unstarted"}
  /\ aStopPc' = "returned"
  /\ UNCHANGED <<aBuffer, aStopClosed, aWorker, aCall, aIssued, aAtStop, poolVars, notAsync>>

(***************************************************************************)
(* Specifications of the Async Dispatcher                                  *)
(***************************************************************************)
InitAsync == IdleAsync /\ IdleBreaker /\ IdleRotating /\ IdleRest

NextAsync ==
  \/ DirectHandle
  \/ \E w \in Workers : WorkerRecv(w)
  \/ \E w \in Workers : WorkerHandle(w)
  \/ \E w \in Workers : WorkerExit(w)
  \/ StopClose
  \/ StopWait

SpecAsync == InitAsync /\ [][NextAsync]_vars

\* No Stop is issued; every worker is scheduled fairly and the wrapped
\* handler returns.
NextAsyncRun ==
  \/ DirectHandle
  \/ \E w \in Workers : WorkerRecv(w)
  \/ \E w \in Workers : WorkerHandle(w)

SpecAsyncLive ==
  /\ InitAsync
  /\ [][NextAsyncRun]_vars
  /\ \A w \in Workers : WF_vars(WorkerRecv(w)) /\ WF_vars(WorkerHandle(w))

(***************************************************************************)
(* C1: with no Stop issued, every event accepted into the queue is         *)
(* eventually passed to the wrapped handler, exactly once and by exactly   *)
(* one worker.                                                             *)
(***************************************************************************)
AcceptedDeliveredOnce ==
  /\ [](\A c \in Calls : aCall[c].path = "queued" =>
            /\ aCall[c].count <= 1
            /\ aCall[c].by \subseteq Workers
            /\ Cardinality(aCall[c].by) = aCall[c].count)
  /\ \A c \in Calls :
       (aCall[c].path = "queued") ~> (aCall[c].count = 1)

AcceptedDeliveredOnceWitness ==
  /\ aIssued = MaxCalls
  /\ \A c \in Calls : aCall[c].path = "queued" /\ aCall[c].count = 1
  /\ \E c, d \in Calls : aCall[c].by # aCall[d].by

(***************************************************************************)
(* C2: when Stop returns, every event that was accepted before Stop was    *)
(* called has been delivered to the wrapped handler exactly once.          *)
(***************************************************************************)
StopDrainsQueue ==
  aStopPc = "returned" => \A c \in aAtStop : aCall[c].count = 1

(***************************************************************************)
(* C3: a Handle call that finds the queue full invokes the wrapped handler *)
(* exactly once on the caller's goroutine, returns that invocation's       *)
(* outcome and does not enqueue the event; no worker delivers it later.    *)
(***************************************************************************)
FullQueueIsSynchronous ==
  /\ [][(aIssued' # aIssued /\ Len(aBuffer) >= BufferSize) =>
          /\ aCall'[aIssued'].path = "sync"
          /\ aBuffer' = aBuffer]_vars
  /\ [](\A c \in Calls : aCall[c].path = "sync" =>
          /\ aCall[c].count = 1
          /\ aCall[c].by = {"caller"}
          /\ aCall[c].ret = aCall[c].outcome
          /\ \A i \in 1..Len(aBuffer) : aBuffer[i].call # c
          /\ \A w \in Workers : aWorker[w].item.call # c)

FullQueueIsSynchronousWitness ==
  \E c \in Calls :
    /\ aCall[c].path = "sync"
    /\ aCall[c].outcome = "fail"
    /\ aCall[c].ret = "fail"
    /\ Len(aBuffer) = BufferSize

(***************************************************************************)
(* C4: a Handle call made after Stop has returned is never placed in the   *)
(* queue of the stopped dispatcher.                                        *)
(***************************************************************************)
NoEnqueueAfterStop ==
  \A c \in Calls : aCall[c].afterStop => aCall[c].path # "queued"

(***************************************************************************)
(* logger.log with an AsyncHandler as the logger's handler                 *)
(***************************************************************************)
\* getEntryFromPool: entryPool.Get() hands out a pooled entry or, on a miss,
\* a new one from New.
PoolGet == ePool \cup (Ptrs \ eAlloc)

\* logger.log up to and including handler.Handle(entry)
LogHandle ==
  /\ aIssued < MaxCalls
  /\ Cardinality(lPend) < NumProducers
  /\ \E ptr \in PoolGet, out \in Outcomes, lvl \in {InfoLevel, ErrorLevel} :
       LET c == aIssued + 1 IN
       /\ ePool' = ePool \ {ptr}
       /\ eAlloc' = eAlloc \cup {ptr}
       /\ eGot' = eGot \cup {Got(ptr)}
       /\ eMsg' = [eMsg EXCEPT ![ptr] = c]
       /\ eLevel' = [eLevel EXCEPT ![ptr] = lvl]
       /\ eFields' = [eFields EXCEPT ![ptr] = "set"]
       /\ AsyncHandle(ptr, c, c, out)
       /\ aIssued' = c
       /\ lPend' = lPend \cup {ptr}
  /\ UNCHANGED <<aStopClosed, aStopPc, aWorker, aAtStop, notLog>>

\* logger.log's putEntryToPool(entry): entry.Reset(), entryPool.Put(entry)
LogPut ==
  /\ \E ptr \in lPend :
       /\ eMsg' = [eMsg EXCEPT ![ptr] = NoMsg]
       /\ eLevel' = [eLevel EXCEPT ![ptr] = InfoLevel]
       /\ eFields' = [eFields EXCEPT ![ptr] = "nil"]
       /\ ePool' = ePool \cup {ptr}
       /\ lPend' = lPend \ {ptr}
  /\ UNCHANGED <<asyncVars, eAlloc, eGot, notLog>>

NextLog ==
  \/ LogHandle
  \/ LogPut
  \/ \E w \in Workers : WorkerRecv(w)
  \/ \E w \in Workers : WorkerHandle(w)

SpecLog == InitAsync /\ [][NextLog]_vars

(***************************************************************************)
(* C5: the wrapped handler never receives, from a worker, an entry that    *)
(* has been reset or refilled since the log call enqueued it.              *)
(***************************************************************************)
EntryIntactAtDelivery ==
  \A c \in Calls : aCall[c].count > 0 => aCall[c].seen = c

(***************************************************************************)
(* CircuitBreaker operations                                               *)
(***************************************************************************)
setStateQuietClose(b, newState) ==
  [b EXCEPT !.state = newState,
            !.events = IF newState = "closed" THEN @
                       ELSE Append(@, <<b.state, newState>>)]

\* setState: oldState := cb.state; cb.state = newState;
\* cb.onStateChange(oldState, newState)
setState(b, newState) ==
  [b EXCEPT !.state = newState, !.events = Append(@, <<b.state, newState>>)]

\* time.Since(cb.lastFailure) > cb.timeout
CoolDownElapsedInclusive(b, t) == t - b.lastFailure >= CoolDown

CoolDownElapsed(b, t) == t - b.lastFailure > CoolDown

recordFailureOffByOne(b, t) ==
  LET b1 == [b EXCEPT !.failures = @ + 1, !.lastFailure = t] IN
  IF b1.state = "half-open" THEN setState(b1, "open")
  ELSE IF b1.failures > cbMaxFailures THEN setState(b1, "open")
  ELSE b1

\* recordFailure, with t the value of time.Now()
recordFailure(b, t) ==
  LET b1 == [b EXCEPT !.failures = @ + 1, !.lastFailure = t] IN
  IF b1.state = "half-open" THEN setState(b1, "open")
  ELSE IF b1.failures >= cbMaxFailures THEN setState(b1, "open")
  ELSE b1

recordSuccessStaysHalfOpen(b) == [b EXCEPT !.failures = 0]

recordSuccess(b) ==
  LET b1 == [b EXCEPT !.failures = 0] IN
  IF b1.state = "half-open" THEN setState(b1, "closed") ELSE b1

TickWithTimer ==
  /\ now < EndTime
  /\ now' = now + 1
  /\ cb' = IF cb.state = "open" /\ CoolDownElapsed(cb, now + 1)
           THEN setState(cb, "half-open") ELSE cb
  /\ UNCHANGED <<cbMaxFailures, cbLog, cbCaller, cbStarted, cbCallback, cbMu,
                 cbUnlocked, notBreaker>>

\* the clock advances
Tick ==
  /\ now < EndTime
  /\ now' = now + 1
  /\ UNCHANGED <<cb, cbMaxFailures, cbLog, cbCaller, cbStarted, cbCallback, cbMu,
                 cbUnlocked, notBreaker>>

(***************************************************************************)
(* Execute, one call at a time. The operation fn takes d ticks and         *)
(* succeeds (ok) or fails. The ghost record keeps the breaker before the   *)
(* call (pre), after the open check (mid) and after the call (post).       *)
(***************************************************************************)
Execute ==
  /\ Len(cbLog) < MaxExec
  /\ \E ok \in BOOLEAN, d \in 0..1 :
       LET rejected == cb.state = "open" /\ ~CoolDownElapsed(cb, now)
           mid == IF cb.state = "open" /\ ~rejected
                  THEN setState(cb, "half-open") ELSE cb
           post == IF rejected THEN cb
                   ELSE IF ok THEN recordSuccess(mid)
                   ELSE recordFailure(mid, now + d)
       IN
       /\ now + d <= EndTime
       /\ rejected => (ok /\ d = 0)
       /\ cb' = post
       /\ now' = now + d
       /\ cbLog' = Append(cbLog,
            [at |-> now, end |-> now + d, pre |-> cb, mid |-> mid, post |-> post,
             invoked |-> ~rejected, opOk |-> ok,
             res |-> IF rejected THEN "open" ELSE IF ok THEN "ok" ELSE "fail"])
  /\ UNCHANGED <<cbMaxFailures, cbCaller, cbStarted, cbCallback, cbMu,
                 cbUnlocked, notBreaker>>

InitBreaker ==
  /\ \E m \in 1..MaxThreshold : NewCircuitBreaker(m)
  /\ IdleAsync
  /\ IdleRotating
  /\ IdleRest

NextBreakerSeq ==
  \/ Execute
  \/ Tick

SpecBreakerSeq == InitBreaker /\ [][NextBreakerSeq]_vars

(***************************************************************************)
(* Execute called from several goroutines: a call reads cb.state under the *)
(* read lock, then checks the cool-down and calls setState without a lock, *)
(* then runs fn, then records the outcome under the write lock.            *)
(***************************************************************************)
\* cb.mu.RLock(); state := cb.state; cb.mu.RUnlock()
ExecRead(k) ==
  /\ cbCaller[k].pc = "idle"
  /\ cbMu = 0
  /\ cbStarted < MaxExec
  /\ cbStarted' = cbStarted + 1
  /\ cbCaller' = [cbCaller EXCEPT ![k] = [pc |-> "check", seen |-> cb.state, trial |-> FALSE]]
  /\ UNCHANGED <<cb, cbMaxFailures, now, cbLog, cbCallback, cbMu, cbUnlocked,
                 notBreaker>>

\* state == open and the cool-down has not elapsed: return the error; the
\* cool-down check reads cb.lastFailure without the lock
ExecReject(k) ==
  /\ cbCaller[k].pc = "check"
  /\ cbCaller[k].seen = "open"
  /\ ~CoolDownElapsed(cb, now)
  /\ cbCaller' = [cbCaller EXCEPT ![k].pc = "idle"]
  /\ cbUnlocked' = cbUnlocked \cup {[field |-> "lastFailure", write |-> FALSE]}
  /\ UNCHANGED <<cb, cbMaxFailures, now, cbLog, cbStarted, cbCallback, cbMu,
                 notBreaker>>

\* state != open, or the cool-down has elapsed (setState(half-open), called
\* without the lock): fn is invoked. A reentrant callback takes the read
\* lock, and waits for ever when a goroutine stuck in its own callback
\* holds the write lock.
ExecEnter(k) ==
  /\ cbCaller[k].pc = "check"
  /\ cbCaller[k].seen = "open" => CoolDownElapsed(cb, now)
  /\ cb' = IF cbCaller[k].seen = "open" THEN setState(cb, "half-open") ELSE cb
  /\ cbCaller' = [cbCaller EXCEPT
        ![k].pc = IF cbCaller[k].seen = "open" /\ cbCallback = "reentrant" /\ cbMu # 0
                  THEN "blocked" ELSE "fn",
        ![k].trial = (cb'.state = "half-open")]
  /\ cbUnlocked' = IF cbCaller[k].seen = "open"
                   THEN cbUnlocked \cup {[field |-> "lastFailure", write |-> FALSE],
                                         [field |-> "state", write |-> FALSE],
                                         [field |-> "state", write |-> TRUE]}
                   ELSE cbUnlocked
  /\ UNCHANGED <<cbMaxFailures, now, cbLog, cbStarted, cbCallback, cbMu, notBreaker>>

ExecFinishNoReset(k) ==
  /\ cbCaller[k].pc = "fn"
  /\ cbMu = 0
  /\ \E ok \in BOOLEAN :
       cb' = IF ok THEN (IF cb.state = "half-open" THEN setState(cb, "closed") ELSE cb)
             ELSE recordFailure(cb, now)
  /\ LET stuck == cbCallback = "reentrant" /\ Len(cb'.events) > Len(cb.events)
     IN /\ cbMu' = IF stuck THEN k ELSE 0
        /\ cbCaller' = [cbCaller EXCEPT ![k].pc = IF stuck THEN "blocked" ELSE "idle",
                                        ![k].trial = FALSE]
  /\ UNCHANGED <<cbMaxFailures, now, cbLog, cbStarted, cbCallback, cbUnlocked,
                 notBreaker>>

\* fn returns; recordFailure / recordSuccess under cb.mu.Lock(). When
\* setState is called there and the callback is reentrant, the callback
\* waits for cb.mu, which its own goroutine holds: the call never returns
\* and the lock is never released.
ExecFinish(k) ==
  /\ cbCaller[k].pc = "fn"
  /\ cbMu = 0
  /\ \E ok \in BOOLEAN :
       cb' = IF ok THEN recordSuccess(cb) ELSE recordFailure(cb, now)
  /\ LET stuck == cbCallback = "reentrant" /\ Len(cb'.events) > Len(cb.events)
     IN /\ cbMu' = IF stuck THEN k ELSE 0
        /\ cbCaller' = [cbCaller EXCEPT ![k].pc = IF stuck THEN "blocked" ELSE "idle",
                                        ![k].trial = FALSE]
  /\ UNCHANGED <<cbMaxFailures, now, cbLog, cbStarted, cbCallback, cbUnlocked,
                 notBreaker>>

NextBreaker ==
  \/ \E k \in Callers : ExecRead(k)
  \/ \E k \in Callers : ExecReject(k)
  \/ \E k \in Callers : ExecEnter(k)
  \/ \E k \in Callers : ExecFinish(k)
  \/ Tick

SpecBreaker == InitBreaker /\ [][NextBreaker]_vars

\* number of failed operations at the end of the log, back to the last
\* call that was not a failed operation
RECURSIVE TrailingFails(_)
TrailingFails(log) ==
  IF log = <<>> THEN 0
  ELSE IF log[Len(log)].res = "fail"
       THEN 1 + TrailingFails(SubSeq(log, 1, Len(log) - 1))
       ELSE 0

\* every call so far was made on a closed breaker
StayedClosed(log) == \A i \in 1..Len(log) : log[i].pre.state = "closed"

(***************************************************************************)
(* C6: sequential calls on a breaker that starts closed with count 0: the  *)
(* breaker is open exactly when the number of consecutive failures has     *)
(* reached maxFailures, it is closed below that, and a success on the      *)
(* closed breaker resets the count to 0.                                   *)
(***************************************************************************)
OpensAtThreshold ==
  /\ cb.state = "closed" =>
       /\ cb.failures = TrailingFails(cbLog)
       /\ cb.failures < cbMaxFailures
  /\ StayedClosed(cbLog) =>
       /\ cb.state \in {"closed", "open"}
       /\ cb.state = "open" <=> TrailingFails(cbLog) = cbMaxFailures
  /\ \A i \in 1..Len(cbLog) :
       (cbLog[i].pre.state = "closed" /\ cbLog[i].res = "ok") =>
          /\ cbLog[i].post.failures = 0
          /\ cbLog[i].post.state = "closed"

OpensAtThresholdWitness ==
  /\ cbMaxFailures = 2
  /\ Len(cbLog) = 4
  /\ cbLog[1].res = "fail" /\ cbLog[2].res = "ok"
  /\ cbLog[3].res = "fail" /\ cbLog[3].post.state = "closed"
  /\ cbLog[4].res = "fail" /\ cb.state = "open"

(***************************************************************************)
(* C7: a call made while the breaker is open and the time since the last   *)
(* failure has not exceeded the cool-down returns the breaker-open error   *)
(* without invoking the operation and leaves state, failure count and      *)
(* last-failure time as they were.                                         *)
(***************************************************************************)
RejectedWhileOpen ==
  \A i \in 1..Len(cbLog) :
    (cbLog[i].pre.state = "open"
       /\ cbLog[i].at - cbLog[i].pre.lastFailure <= CoolDown) =>
      /\ cbLog[i].res = "open"
      /\ ~cbLog[i].invoked
      /\ cbLog[i].post = cbLog[i].pre

RejectedWhileOpenWitness ==
  \E i \in 1..Len(cbLog) :
    /\ cbLog[i].res = "open"
    /\ cbLog[i].at - cbLog[i].pre.lastFailure = CoolDown
    /\ cb.state = "open"

(***************************************************************************)
(* C8: the trial call let through in half-open closes the breaker with     *)
(* count 0 when it succeeds and reopens it, with the cool-down counted     *)
(* from that failure, when it fails. With threshold 3: after three failed  *)
(* calls the breaker is open, and a fourth call made more than the         *)
(* cool-down later is let through as the trial and, succeeding, closes it. *)
(***************************************************************************)
HalfOpenTrial ==
  /\ \A i \in 1..Len(cbLog) :
       cbLog[i].mid.state = "half-open" =>
         /\ cbLog[i].invoked
         /\ cbLog[i].res = "ok" =>
              cbLog[i].post.state = "closed" /\ cbLog[i].post.failures = 0
         /\ cbLog[i].res = "fail" =>
              /\ cbLog[i].post.state = "open"
              /\ cbLog[i].post.lastFailure = cbLog[i].end
              /\ (i < Len(cbLog) /\ cbLog[i + 1].at - cbLog[i].end <= CoolDown) =>
                    cbLog[i + 1].res = "open"
  /\ (cbMaxFailures = 3 /\ Len(cbLog) >= 3
        /\ \A i \in 1..3 : cbLog[i].res = "fail") =>
       /\ cbLog[3].post.state = "open"
       /\ (Len(cbLog) >= 4 /\ cbLog[4].at - cbLog[3].end > CoolDown) =>
            /\ cbLog[4].invoked
            /\ cbLog[4].mid.state = "half-open"
            /\ cbLog[4].opOk => cbLog[4].post.state = "closed"

HalfOpenTrialWitness ==
  /\ cbMaxFailures = 3
  /\ Len(cbLog) = 4
  /\ \A i \in 1..3 : cbLog[i].res = "fail"
  /\ cbLog[4].mid.state = "half-open"
  /\ cbLog[4].res = "ok"
  /\ cb.state = "closed" /\ cb.failures = 0

(***************************************************************************)
(* C9: at most one caller at a time is running the operation as the        *)
(* half-open trial.                                                        *)
(***************************************************************************)
AtMostOneTrial ==
  Cardinality({k \in Callers : cbCaller[k].pc = "fn" /\ cbCaller[k].trial}) <= 1

(***************************************************************************)
(* RotatingFileHandler operations                                          *)
(***************************************************************************)
RenameKeepsSource(fs, a, b) ==
  IF fs[a].exists THEN [fs EXCEPT ![b] = fs[a]] ELSE fs

\* if _, err := os.Stat(a); err == nil { os.Rename(a, b) }
Rename(fs, a, b) ==
  IF fs[a].exists THEN [fs EXCEPT ![b] = fs[a], ![a] = NoFile] ELSE fs

\* for i := from; i > 0; i-- { rename filename.i to filename.(i+1) }
RECURSIVE ShiftUp(_, _)
ShiftUp(fs, i) ==
  IF i <= 0 THEN fs ELSE ShiftUp(Rename(fs, i, i + 1), i - 1)

rotateRenamesFromTop(fs, maxFiles) == Rename(ShiftUp(fs, maxFiles), 0, 1)

\* the renames of rotate: the loop from maxFiles-1 down to 1, then
\* filename to filename.1
rotateRenames(fs, maxFiles) == Rename(ShiftUp(fs, maxFiles - 1), 0, 1)

NeedsRotationInclusive(size, len) == size + (len + 1) >= RotMaxSize

\* h.currentSize+int64(len(formatted)+1) > h.maxSize
NeedsRotation(size, len) == size + (len + 1) > RotMaxSize

RotatingHandleCapped(len, openOk) ==
  LET ev == <<rWritten + 1, len>>
      rotates == NeedsRotation(rSize, len)
      opened == IF rotates
                THEN OpenFile(rotateRenames(rFiles, rMaxFiles), openOk)
                ELSE rFiles
      handle == IF rotates THEN (IF openOk THEN "open" ELSE "closed") ELSE rHandle
      size == IF rotates /\ openOk THEN DataSize(opened[0].data) ELSE rSize
      writes == (rotates => openOk) /\ handle = "open" /\ len + 1 <= RotMaxSize
  IN
  /\ rWritten < MaxEvents
  /\ rWritten' = rWritten + 1
  /\ rFiles' = IF writes THEN [opened EXCEPT ![0].data = Append(@, ev)] ELSE opened
  /\ rHandle' = handle
  /\ rSize' = IF writes THEN size + (len + 1) ELSE size
  /\ rLog' = IF rotates THEN Append(rLog, rFiles[0].data) ELSE rLog
  /\ rRet' = Append(rRet, [ret |-> IF writes THEN "ok" ELSE "fail",
                            afterClose |-> rClosed,
                            rotFailed |-> rotates /\ ~openOk])
  /\ UNCHANGED <<rMaxFiles, rClosed, rMu, rG, rOrder, notRotating>>

\* Handle of an event whose formatted text is len bytes long; openOk says
\* whether rotate's openFile succeeds, should Handle rotate.
RotatingHandle(len, openOk) ==
  LET ev == <<rWritten + 1, len>>
      rotates == NeedsRotation(rSize, len)
      opened == IF rotates
                THEN OpenFile(rotateRenames(rFiles, rMaxFiles), openOk)
                ELSE rFiles
      handle == IF rotates THEN (IF openOk THEN "open" ELSE "closed") ELSE rHandle
      size == IF rotates /\ openOk THEN DataSize(opened[0].data) ELSE rSize
      writes == (rotates => openOk) /\ handle = "open"
  IN
  /\ rWritten < MaxEvents
  /\ rWritten' = rWritten + 1
  /\ rFiles' = IF writes THEN [opened EXCEPT ![0].data = Append(@, ev)] ELSE opened
  /\ rHandle' = handle
  /\ rSize' = IF writes THEN size + (len + 1) ELSE size
  /\ rLog' = IF rotates THEN Append(rLog, rFiles[0].data) ELSE rLog
  /\ rRet' = Append(rRet, [ret |-> IF writes THEN "ok" ELSE "fail",
                            afterClose |-> rClosed,
                            rotFailed |-> rotates /\ ~openOk])
  /\ UNCHANGED <<rMaxFiles, rClosed, rMu, rG, rOrder, notRotating>>

\* The directory the handler is constructed on: filename may hold earlier
\* output, and rotations of an earlier run with the same maxFiles may exist.
StartDir(active, pre) ==
  [i \in FileIdx |->
     IF i = 0 THEN (IF active THEN File(<< <<0, 1>> >>) ELSE NoFile)
     ELSE IF i \in pre THEN File(<< <<0 - i, 1>> >>) ELSE NoFile]

InitRotating ==
  /\ \E k \in 0..MaxK, active \in BOOLEAN :
       \E pre \in SUBSET (1..k) : NewRotatingFileHandler(k, StartDir(active, pre))
  /\ IdleAsync
  /\ IdleBreaker
  /\ IdleRest

\* no I/O failure: every openFile succeeds
NextRotating == \E len \in 1..MaxLen : RotatingHandle(len, TRUE)

SpecRotating == InitRotating /\ [][NextRotating]_vars

\* the rotated files present, and the events found in a set of contents
Rotated == {i \in 1..MaxIdx : rFiles[i].exists}
EventsOf(data) == {data[j] : j \in 1..Len(data)}
OnDisk == UNION {EventsOf(rFiles[i].data) : i \in FileIdx}

\* what C10 says of a handler with maxFiles = k
KeepsLastK ==
  /\ \A i \in Rotated : i <= rMaxFiles
  /\ Len(rLog) >= rMaxFiles =>
       /\ rFiles[0].exists
       /\ Rotated = 1..rMaxFiles
       /\ \A i \in 1..rMaxFiles : rFiles[i].data = rLog[Len(rLog) - i + 1]
       /\ \A j \in 1..(Len(rLog) - rMaxFiles) : EventsOf(rLog[j]) \cap OnDisk = {}

(***************************************************************************)
(* C10 as stated, for every maxFiles = k: once k rotations have happened,  *)
(* exactly the files filename.1 .. filename.k exist besides filename, they *)
(* hold the k most recent rotations, no file with an index above k is ever *)
(* created and the content of older rotations is gone.                     *)
(***************************************************************************)
RotatedFilesAreLastK == KeepsLastK

(***************************************************************************)
(* C10, amended: the same for every maxFiles = k with k >= 1.              *)
(***************************************************************************)
RotatedFilesAreLastKPositive == rMaxFiles >= 1 => KeepsLastK

RotatedFilesAreLastKPositiveWitness ==
  /\ rMaxFiles = 2
  /\ Len(rLog) = 3
  /\ rLog[1] # <<>>
  /\ Rotated = {1, 2}
  /\ rFiles[2].data = rLog[2]
  /\ rFiles[1].data = rLog[3]

(***************************************************************************)
(* RotatingFileHandler with Close and with openFile failures               *)
(***************************************************************************)
\* Close: h.currentFile.Close()
RotatingClose ==
  /\ ~rClosed
  /\ rClosed' = TRUE
  /\ rHandle' = "closed"
  /\ UNCHANGED <<rFiles, rSize, rMaxFiles, rLog, rWritten, rRet, rMu, rG, rOrder,
                 notRotating>>

NextRotatingIO ==
  \/ \E len \in 1..MaxLen, openOk \in BOOLEAN : RotatingHandle(len, openOk)
  \/ RotatingClose

SpecRotatingIO == InitRotating /\ [][NextRotatingIO]_vars

(***************************************************************************)
(* C11: every Handle call made after Close returns a failure and its event *)
(* is written to no file.                                                  *)
(***************************************************************************)
HandleAfterCloseFails ==
  \A i \in 1..Len(rRet) :
    rRet[i].afterClose =>
      /\ rRet[i].ret = "fail"
      /\ \A e \in OnDisk : e[1] # i

(***************************************************************************)
(* C12: a Handle call whose rotation fails returns the failure and leaves  *)
(* the directory and the size counter as they were, and a Handle call      *)
(* repeated after the failure does not shift the retained files again.     *)
(***************************************************************************)
RotationFailureIsClean ==
  [][Len(rRet') > Len(rRet) =>
       /\ rRet'[Len(rRet')].rotFailed =>
            /\ rRet'[Len(rRet')].ret = "fail"
            /\ rFiles' = rFiles
            /\ rSize' = rSize
       /\ (Len(rRet) > 0 /\ rRet[Len(rRet)].rotFailed) =>
            \A i \in 1..MaxIdx : rFiles'[i] = rFiles[i]]_vars

(***************************************************************************)
(* RotatingFileHandler.Handle called from several goroutines               *)
(***************************************************************************)
RotatingLockNoMutex(g, len) ==
  /\ rG[g].pc = "idle"
  /\ rWritten < MaxConcEvents
  /\ rMu' = g
  /\ rWritten' = rWritten + 1
  /\ rOrder' = Append(rOrder, <<rWritten + 1, len>>)
  /\ rG' = [rG EXCEPT ![g] = [pc |-> "check", ev |-> <<rWritten + 1, len>>,
                              snap |-> <<>>]]
  /\ UNCHANGED <<rFiles, rHandle, rSize, rMaxFiles, rLog, rClosed, rRet, notRotating>>

\* h.mu.Lock(), and the formatting of the entry into len bytes
RotatingLock(g, len) ==
  /\ rG[g].pc = "idle"
  /\ rMu = 0
  /\ rWritten < MaxConcEvents
  /\ rMu' = g
  /\ rWritten' = rWritten + 1
  /\ rOrder' = Append(rOrder, <<rWritten + 1, len>>)
  /\ rG' = [rG EXCEPT ![g] = [pc |-> "check", ev |-> <<rWritten + 1, len>>,
                              snap |-> <<>>]]
  /\ UNCHANGED <<rFiles, rHandle, rSize, rMaxFiles, rLog, rClosed, rRet, notRotating>>

\* the size check, and rotate when it asks for one (openFile succeeds);
\* snap notes the content of the active file the call is about to append to
RotatingCheck(g) ==
  LET rotates == NeedsRotation(rSize, rG[g].ev[2])
      opened == IF rotates
                THEN OpenFile(rotateRenames(rFiles, rMaxFiles), TRUE)
                ELSE rFiles
  IN
  /\ rG[g].pc = "check"
  /\ rFiles' = opened
  /\ rHandle' = IF rotates THEN "open" ELSE rHandle
  /\ rSize' = IF rotates THEN DataSize(opened[0].data) ELSE rSize
  /\ rLog' = IF rotates THEN Append(rLog, rFiles[0].data) ELSE rLog
  /\ rG' = [rG EXCEPT ![g].pc = "append", ![g].snap = opened[0].data]
  /\ UNCHANGED <<rMaxFiles, rWritten, rClosed, rRet, rMu, rOrder, notRotating>>

\* h.currentFile.Write, h.currentSize += ..., and the deferred h.mu.Unlock()
RotatingAppend(g) ==
  /\ rG[g].pc = "append"
  /\ rFiles' = [rFiles EXCEPT ![0].data = Append(@, rG[g].ev)]
  /\ rSize' = rSize + (rG[g].ev[2] + 1)
  /\ rMu' = IF rMu = g THEN 0 ELSE rMu
  /\ rG' = [rG EXCEPT ![g].pc = "idle"]
  /\ rRet' = Append(rRet, [ret |-> "ok", afterClose |-> rClosed, rotFailed |-> FALSE])
  /\ UNCHANGED <<rHandle, rMaxFiles, rLog, rWritten, rClosed, rOrder, notRotating>>

\* a short entry, and one that fills a fresh file up to maxSize
ConcLens == {1, RotMaxSize - 1}

\* the active file exists; the rotated files are all there or all missing
InitRotatingConc ==
  /\ \E k \in 0..MaxK :
       \E pre \in {{}, 1..k} : NewRotatingFileHandler(k, StartDir(TRUE, pre))
  /\ IdleAsync
  /\ IdleBreaker
  /\ IdleRest

NextRotatingConc ==
  \/ \E g \in Writers, len \in ConcLens : RotatingLock(g, len)
  \/ \E g \in Writers : RotatingCheck(g)
  \/ \E g \in Writers : RotatingAppend(g)

SpecRotatingConc == InitRotatingConc /\ [][NextRotatingConc]_vars

\* the files read in the order filename.MaxIdx, ..., filename.1, filename
RECURSIVE DiskFrom(_)
DiskFrom(i) == IF i < 0 THEN <<>> ELSE rFiles[i].data \o DiskFrom(i - 1)

\* position of an event in the order of lock acquisition (0: written by an
\* earlier run)
LockPos(e) ==
  IF \E j \in 1..Len(rOrder) : rOrder[j] = e
  THEN CHOOSE j \in 1..Len(rOrder) : rOrder[j] = e
  ELSE 0

(***************************************************************************)
(* C13: concurrent Handle calls run size check, rotation and append as one *)
(* critical section: between a call's size check and its append the active *)
(* file is touched by no other call, the event is appended to the file     *)
(* that was active after the call's own size check, and the events on disk *)
(* are in the order in which their calls acquired the lock.                *)
(***************************************************************************)
HandleIsCriticalSection ==
  /\ [](/\ Cardinality({g \in Writers : rG[g].pc # "idle"}) <= 1
        /\ \A g \in Writers : rG[g].pc = "append" =>
             /\ rFiles[0].data = rG[g].snap
             /\ rSize = DataSize(rG[g].snap)
        /\ LET disk == DiskFrom(MaxIdx) IN
           \A i, j \in 1..Len(disk) :
             i < j => LockPos(disk[i]) < LockPos(disk[j]) \/ LockPos(disk[i]) = 0)
  /\ [][\A g \in Writers :
          (rG[g].pc = "append" /\ rG'[g].pc = "idle") =>
             /\ rFiles'[0].data = Append(rG[g].snap, rG[g].ev)
             /\ \A i \in 1..MaxIdx : rFiles'[i] = rFiles[i]]_vars

HandleIsCriticalSectionWitness ==
  /\ \E g \in Writers : rG[g].pc = "append" /\ rG[g].snap = <<>> /\ Len(rLog) > 0
  /\ \E g \in Writers : rG[g].pc = "idle" /\ rG[g].ev[1] > 0
  /\ rWritten >= 3

(***************************************************************************)
(* SamplingHandler                                                         *)
(***************************************************************************)
\* The float64 product h.rate*100 for h.rate = float64(p/100), as twice its
\* value so that the half steps stay integers: the product is exactly p for
\* most p, slightly above p for 7, 14, 28, 55, 56 (p/100 rounds up and the
\* product keeps the excess) and slightly below p for 29, 57, 58.
RateTimes100(p) ==
  2 * p + (IF p \in {7, 14, 28, 55, 56} THEN 1
           ELSE IF p \in {29, 57, 58} THEN 0 - 1
           ELSE 0)

\* h.rate < 1.0 && float64(h.counter%100) >= h.rate*100
Skips(p, c) == p < Modulus /\ 2 * (c % Modulus) >= RateTimes100(p)

\* one whole Handle call, calls made one at a time
SamplingHandle ==
  /\ sStarted < MaxSampleCalls
  /\ sStarted' = sStarted + 1
  /\ sCounter' = sCounter + 1
  /\ sDone' = Append(sDone, [saw |-> sCounter + 1, used |-> sCounter + 1,
                             fwd |-> ~Skips(sRate, sCounter + 1)])
  /\ UNCHANGED <<sRate, sMu, sG, notSampling>>

InitSampling ==
  /\ \E p \in 0..Modulus : NewSamplingHandler(p)
  /\ IdleAsync
  /\ IdleBreaker
  /\ IdleRotating
  /\ IdleHealth
  /\ InitHolders
  /\ IdleExtra

NextSampling == SamplingHandle

SpecSampling == InitSampling /\ [][NextSampling]_vars

\* the calls among the first n that were forwarded
Forwarded(n) == {sDone[i].saw : i \in {j \in 1..Len(sDone) : sDone[j].fwd /\ sDone[j].saw <= n}}

(***************************************************************************)
(* C14: with rate p/100 on a fresh instance, the calls forwarded among     *)
(* calls 1..100 are exactly those whose counter c has c mod 100 < p, which *)
(* are p calls.                                                            *)
(***************************************************************************)
ForwardsExactlyP ==
  sCounter >= Modulus =>
    /\ Forwarded(Modulus) = {c \in 1..Modulus : c % Modulus < sRate}
    /\ Cardinality(Forwarded(Modulus)) = sRate

(***************************************************************************)
(* SamplingHandler.Handle called from several goroutines                   *)
(***************************************************************************)
SamplingLockNoMutex(g) ==
  /\ sG[g].pc = "idle"
  /\ sStarted < MaxSampleConc
  /\ sStarted' = sStarted + 1
  /\ sMu' = g
  /\ sG' = [sG EXCEPT ![g] = [pc |-> "load", saw |-> 0]]
  /\ UNCHANGED <<sRate, sCounter, sDone, notSampling>>

\* h.mu.Lock()
SamplingLock(g) ==
  /\ sG[g].pc = "idle"
  /\ sMu = 0
  /\ sStarted < MaxSampleConc
  /\ sStarted' = sStarted + 1
  /\ sMu' = g
  /\ sG' = [sG EXCEPT ![g] = [pc |-> "load", saw |-> 0]]
  /\ UNCHANGED <<sRate, sCounter, sDone, notSampling>>

\* h.counter++ : the read of h.counter
SamplingLoad(g) ==
  /\ sG[g].pc = "load"
  /\ sG' = [sG EXCEPT ![g] = [pc |-> "store", saw |-> sCounter]]
  /\ UNCHANGED <<sRate, sCounter, sMu, sStarted, sDone, notSampling>>

\* h.counter++ : the write of the incremented value
SamplingStore(g) ==
  /\ sG[g].pc = "store"
  /\ sCounter' = sG[g].saw + 1
  /\ sG' = [sG EXCEPT ![g] = [pc |-> "decide", saw |-> sG[g].saw + 1]]
  /\ UNCHANGED <<sRate, sMu, sStarted, sDone, notSampling>>

\* the test, which reads h.counter again, the forward or the skip, and the
\* deferred h.mu.Unlock()
SamplingDecide(g) ==
  /\ sG[g].pc = "decide"
  /\ sDone' = Append(sDone, [saw |-> sG[g].saw, used |-> sCounter,
                             fwd |-> ~Skips(sRate, sCounter)])
  /\ sMu' = IF sMu = g THEN 0 ELSE sMu
  /\ sG' = [sG EXCEPT ![g].pc = "idle"]
  /\ UNCHANGED <<sRate, sCounter, sStarted, notSampling>>

\* rates that tell the first calls apart, and the rate that forwards all
ConcRates == (0..MaxSampleConc) \cup {Modulus}

InitSamplingConc ==
  /\ \E p \in ConcRates : NewSamplingHandler(p)
  /\ IdleAsync
  /\ IdleBreaker
  /\ IdleRotating
  /\ IdleHealth
  /\ InitHolders
  /\ IdleExtra

NextSamplingConc ==
  \/ \E g \in Samplers : SamplingLock(g)
  \/ \E g \in Samplers : SamplingLoad(g)
  \/ \E g \in Samplers : SamplingStore(g)
  \/ \E g \in Samplers : SamplingDecide(g)

SpecSamplingConc == InitSamplingConc /\ [][NextSamplingConc]_vars

\* the number of calls that n calls made one at a time on a fresh instance
\* forward
SeqForwarded(p, n) == Cardinality({c \in 1..n : ~Skips(p, c)})

(***************************************************************************)
(* C15: with concurrent callers every call observes its own counter value  *)
(* (all distinct, none lost: after N calls they are 1..N), decides with    *)
(* exactly that value, and the number of forwarded calls is the one N      *)
(* sequential calls forward.                                               *)
(***************************************************************************)
CounterAndDecisionAtomic ==
  /\ \A i, j \in 1..Len(sDone) : i # j => sDone[i].saw # sDone[j].saw
  /\ \A i \in 1..Len(sDone) :
       /\ sDone[i].saw \in 1..sStarted
       /\ sDone[i].used = sDone[i].saw
       /\ sDone[i].fwd = ~Skips(sRate, sDone[i].saw)
  /\ Len(sDone) = sStarted =>
       /\ {sDone[i].saw : i \in 1..Len(sDone)} = 1..sStarted
       /\ sCounter = sStarted
       /\ Cardinality({i \in 1..Len(sDone) : sDone[i].fwd}) = SeqForwarded(sRate, sStarted)

CounterAndDecisionAtomicWitness ==
  /\ Len(sDone) = MaxSampleConc
  /\ \E i, j \in 1..Len(sDone) : sDone[i].fwd /\ ~sDone[j].fwd
  /\ \E g \in Samplers : sG[g].saw = MaxSampleConc
  /\ \E g \in Samplers : sG[g].saw \notin {0, MaxSampleConc}

(***************************************************************************)
(* HealthMonitor                                                           *)
(***************************************************************************)
\* hm.checks[name] = check; kind "healthy" is a probe that always returns
\* healthy, kind "any" a probe that may return any status
AddCheck(n, kind) ==
  /\ hChecks' = [hChecks EXCEPT ![n] = kind]
  /\ UNCHANGED <<hResults, hCancelled, hMon, hTick, hRounds, hProbes, hAtStop,
                 hRet, notHealth>>

\* delete(hm.checks, name): hm.results keeps the name's last result
RemoveCheck(n) ==
  /\ hChecks[n] # "none"
  /\ hChecks' = [hChecks EXCEPT ![n] = "none"]
  /\ UNCHANGED <<hResults, hCancelled, hMon, hTick, hRounds, hProbes, hAtStop,
                 hRet, notHealth>>

\* go hm.monitor()
HealthStart ==
  /\ hMon = "notstarted"
  /\ hMon' = "running"
  /\ UNCHANGED <<hChecks, hResults, hCancelled, hTick, hRounds, hProbes,
                 hAtStop, hRet, notHealth>>

\* hm.cancel()
HealthStop ==
  /\ ~hCancelled
  /\ hCancelled' = TRUE
  /\ hAtStop' = hRounds
  /\ UNCHANGED <<hChecks, hResults, hMon, hTick, hRounds, hProbes, hRet,
                 notHealth>>

\* the ticker puts a tick into ticker.C (capacity one) after an interval
TickerFire(max) ==
  /\ hMon = "running"
  /\ ~hTick
  /\ hRounds < max
  /\ hTick' = TRUE
  /\ UNCHANGED <<hChecks, hResults, hCancelled, hMon, hRounds, hProbes,
                 hAtStop, hRet, notHealth>>

\* the runCheck goroutines that runChecks starts for the checks registered
Launched(round) ==
  {[name |-> n, round |-> round, kind |-> hChecks[n], expired |-> FALSE] :
     n \in {m \in Names : hChecks[m] # "none"}}

MonitorRoundNoProbes ==
  /\ hMon = "running"
  /\ hTick
  /\ hTick' = FALSE
  /\ hRounds' = hRounds + 1
  /\ UNCHANGED <<hChecks, hResults, hCancelled, hMon, hProbes, hAtStop, hRet,
                 notHealth>>

\* monitor's select takes case <-ticker.C (whether or not hm.ctx is done:
\* select chooses among the ready cases) and calls runChecks
MonitorRound ==
  /\ hMon = "running"
  /\ hTick
  /\ hTick' = FALSE
  /\ hRounds' = hRounds + 1
  /\ hProbes' = hProbes \cup Launched(hRounds + 1)
  /\ UNCHANGED <<hChecks, hResults, hCancelled, hMon, hAtStop, hRet, notHealth>>

\* monitor's select takes case <-hm.ctx.Done() and returns
MonitorExit ==
  /\ hMon = "running"
  /\ hCancelled
  /\ hMon' = "exited"
  /\ UNCHANGED <<hChecks, hResults, hCancelled, hTick, hRounds, hProbes,
                 hAtStop, hRet, notHealth>>

\* the 30 seconds of a probe's context pass while check(ctx) is running:
\* ctx is done, runCheck does nothing
ProbeExpire(pr) ==
  /\ pr \in hProbes
  /\ ~pr.expired
  /\ hProbes' = (hProbes \ {pr}) \cup {[pr EXCEPT !.expired = TRUE]}
  /\ UNCHANGED <<hChecks, hResults, hCancelled, hMon, hTick, hRounds, hAtStop,
                 hRet, notHealth>>

\* what check(ctx) may return: a probe that honours its context may report
\* the expiry itself (unhealthy, with the context's error)
Returns(pr) ==
  IF pr.kind = "healthy"
  THEN {[status |-> "healthy", timeout |-> FALSE]}
  ELSE {[status |-> s, timeout |-> FALSE] : s \in {"healthy", "degraded", "unhealthy"}}
       \cup (IF pr.expired THEN {[status |-> "unhealthy", timeout |-> TRUE]} ELSE {})

\* check(ctx) returns and runCheck stores the result under the name
ProbeReturn(pr, result) ==
  /\ pr \in hProbes
  /\ result \in Returns(pr)
  /\ hResults' = [hResults EXCEPT ![pr.name] = result]
  /\ hProbes' = hProbes \ {pr}
  /\ UNCHANGED <<hChecks, hCancelled, hMon, hTick, hRounds, hAtStop, hRet,
                 notHealth>>

\* the value GetOverallHealth computes from hm.results
GetOverallHealth(results) ==
  LET recorded == {results[n].status : n \in {m \in Names : results[m].status # "none"}}
  IN IF recorded = {} THEN "unhealthy"
     ELSE IF "unhealthy" \in recorded THEN "unhealthy"
     ELSE IF "degraded" \in recorded THEN "degraded"
     ELSE "healthy"

\* a GetOverallHealth call; the ghost notes what the registered checks last
\* reported at the time of the call
GetOverallHealthCall ==
  /\ hRet' = [status |-> GetOverallHealth(hResults),
              reports |-> {hResults[n].status :
                             n \in {m \in Names : hChecks[m] # "none"
                                                  /\ hResults[m].status # "none"}},
              registered |-> \E n \in Names : hChecks[n] # "none"]
  /\ UNCHANGED <<hChecks, hResults, hCancelled, hMon, hTick, hRounds, hProbes,
                 hAtStop, notHealth>>

InitHealth ==
  /\ NewHealthMonitor(NoChecks, "notstarted")
  /\ IdleAsync
  /\ IdleBreaker
  /\ IdleRotating
  /\ IdleSampling
  /\ InitHolders
  /\ IdleExtra

NextHealth ==
  \/ \E n \in Names : AddCheck(n, "any")
  \/ \E n \in Names : RemoveCheck(n)
  \/ HealthStart
  \/ HealthStop
  \/ TickerFire(MaxRounds)
  \/ MonitorRound
  \/ MonitorExit
  \/ \E pr \in hProbes : ProbeExpire(pr)
  \/ \E pr \in hProbes : \E result \in Returns(pr) : ProbeReturn(pr, result)
  \/ GetOverallHealthCall

SpecHealth == InitHealth /\ [][NextHealth]_vars

(***************************************************************************)
(* C16: GetOverallHealth returns unhealthy if a registered check reports   *)
(* unhealthy, otherwise degraded if one reports degraded, otherwise        *)
(* healthy; and unhealthy when no check is registered.                     *)
(***************************************************************************)
OverallFollowsChecks ==
  hRet.status # "none" =>
    hRet.status = IF ~hRet.registered THEN "unhealthy"
                  ELSE IF "unhealthy" \in hRet.reports THEN "unhealthy"
                  ELSE IF "degraded" \in hRet.reports THEN "degraded"
                  ELSE "healthy"

(***************************************************************************)
(* C18: a probe whose 30 s have expired before it returned is recorded     *)
(* under its name as unhealthy due to timeout, from the expiry on and      *)
(* whatever the probe does later.                                          *)
(***************************************************************************)
ExpiredProbeRecordedUnhealthy ==
  /\ [](\A pr \in hProbes : pr.expired =>
          hResults[pr.name] = [status |-> "unhealthy", timeout |-> TRUE])
  /\ [][\A pr \in hProbes : (pr.expired /\ pr \notin hProbes') =>
          hResults'[pr.name] = [status |-> "unhealthy", timeout |-> TRUE]]_vars

(***************************************************************************)
(* C19: after Stop the monitor loop terminates and launches no further     *)
(* round of probes; the probes in flight at Stop are not interrupted.      *)
(***************************************************************************)
NoRoundAfterStop ==
  /\ [](hCancelled => hRounds = hAtStop)
  /\ [][hCancelled' /\ ~hCancelled => hProbes' = hProbes]_vars

(***************************************************************************)
(* HealthMonitor started with a fixed set of checks and never stopped      *)
(***************************************************************************)
\* no check, or one check that always returns healthy
OneHealthy(n) == [m \in Names |-> IF m = n THEN "healthy" ELSE "none"]

InitHealthLive ==
  /\ \E checks \in {NoChecks} \cup {OneHealthy(n) : n \in Names} :
       NewHealthMonitor(checks, "running")
  /\ IdleAsync
  /\ IdleBreaker
  /\ IdleRotating
  /\ IdleSampling
  /\ InitHolders
  /\ IdleExtra

ProbeReturns == \E pr \in hProbes : \E result \in Returns(pr) : ProbeReturn(pr, result)

NextHealthLive ==
  \/ TickerFire(MaxLiveRounds)
  \/ MonitorRound
  \/ \E pr \in hProbes : ProbeExpire(pr)
  \/ ProbeReturns
  \/ GetOverallHealthCall

\* the ticker fires after every interval, the monitor goroutine is scheduled,
\* and a probe that always returns healthy returns
SpecHealthLive ==
  /\ InitHealthLive
  /\ [][NextHealthLive]_vars
  /\ WF_vars(TickerFire(MaxLiveRounds))
  /\ WF_vars(MonitorRound)
  /\ WF_vars(ProbeReturns)

Registered == {n \in Names : hChecks[n] # "none"}

\* the first tick has been taken and its probes have returned
FirstRoundReturned == hRounds >= 1 /\ \A pr \in hProbes : pr.round # 1

(***************************************************************************)
(* C17: with no check registered the overall health is unhealthy in every  *)
(* state; with one always-healthy check and the monitor started it is      *)
(* healthy once the first tick's probe has returned, that state is reached,*)
(* and it stays healthy from then on.                                      *)
(***************************************************************************)
HealthyAfterOneTick ==
  /\ [](Registered = {} =>
          /\ GetOverallHealth(hResults) = "unhealthy"
          /\ hRet.status \in {"none", "unhealthy"})
  /\ []((Registered # {} /\ FirstRoundReturned) =>
          GetOverallHealth(hResults) = "healthy")
  /\ (Registered # {}) ~> (FirstRoundReturned /\ GetOverallHealth(hResults) = "healthy")
  /\ [][GetOverallHealth(hResults) = "healthy" =>
          /\ GetOverallHealth(hResults') = "healthy"
          /\ hRet'.status \in {hRet.status, "healthy"}]_vars

HealthyAfterOneTickWitness ==
  /\ Registered # {}
  /\ hRounds = MaxLiveRounds
  /\ hProbes = {}
  /\ hRet.status = "healthy"
  /\ GetOverallHealth(hResults) = "healthy"

(***************************************************************************)
(* EntryPool used by several goroutines                                    *)
(***************************************************************************)
GetEntryShared(g) ==
  /\ \E ptr \in PoolGet :
       /\ eAlloc' = eAlloc \cup {ptr}
       /\ eGot' = eGot \cup {Got(ptr)}
       /\ eHeld' = [eHeld EXCEPT ![g] = @ \cup {ptr}]
  /\ UNCHANGED <<ePool, eMsg, lPend, eLevel, eFields, notHolders>>

\* ep.pool.Get().(*Entry): sync.Pool.Get removes the item it returns from the
\* pool, or calls New when it finds none
GetEntry(g) ==
  /\ \E ptr \in PoolGet :
       /\ ePool' = ePool \ {ptr}
       /\ eAlloc' = eAlloc \cup {ptr}
       /\ eGot' = eGot \cup {Got(ptr)}
       /\ eHeld' = [eHeld EXCEPT ![g] = @ \cup {ptr}]
  /\ UNCHANGED <<eMsg, lPend, eLevel, eFields, notHolders>>

\* the goroutine writes level, message and fields into an entry it holds
FillEntry(g) ==
  /\ \E ptr \in eHeld[g], lvl \in {InfoLevel, ErrorLevel} :
       /\ eMsg' = [eMsg EXCEPT ![ptr] = g]
       /\ eLevel' = [eLevel EXCEPT ![ptr] = lvl]
       /\ eFields' = [eFields EXCEPT ![ptr] = "set"]
  /\ UNCHANGED <<eAlloc, ePool, lPend, eHeld, eGot, notHolders>>

\* PutEntry: entry.Reset(), ep.pool.Put(entry), for an entry the goroutine
\* holds, which it then no longer uses
PutEntry(g) ==
  /\ \E ptr \in eHeld[g] :
       /\ eMsg' = [eMsg EXCEPT ![ptr] = NoMsg]
       /\ eLevel' = [eLevel EXCEPT ![ptr] = InfoLevel]
       /\ eFields' = [eFields EXCEPT ![ptr] = "nil"]
       /\ ePool' = ePool \cup {ptr}
       /\ eHeld' = [eHeld EXCEPT ![g] = @ \ {ptr}]
  /\ UNCHANGED <<eAlloc, lPend, eGot, notHolders>>

InitEntryPool ==
  /\ InitPool
  /\ InitEntries("empty")
  /\ InitHolders
  /\ IdleExtra
  /\ NewAsyncHandler
  /\ IdleBreaker
  /\ IdleRotating
  /\ IdleSampling
  /\ IdleHealth

NextEntryPool ==
  \/ \E g \in Holders : GetEntry(g)
  \/ \E g \in Holders : FillEntry(g)
  \/ \E g \in Holders : PutEntry(g)

SpecEntryPool == InitEntryPool /\ [][NextEntryPool]_vars

(***************************************************************************)
(* C20: whatever the interleaving of GetEntry/PutEntry pairs, no entry is  *)
(* held by two goroutines at once, none is both held and in the pool, and  *)
(* an entry a goroutine holds carries nothing another goroutine wrote.     *)
(***************************************************************************)
NoAliasedEntries ==
  /\ \A g1, g2 \in Holders : g1 # g2 => eHeld[g1] \cap eHeld[g2] = {}
  /\ \A g \in Holders :
       /\ eHeld[g] \cap ePool = {}
       /\ eHeld[g] \subseteq eAlloc
       /\ \A ptr \in eHeld[g] : eMsg[ptr] \in {NoMsg, g}

NoAliasedEntriesWitness ==
  /\ \E g1, g2 \in Holders :
       /\ g1 # g2
       /\ \E p1 \in eHeld[g1], p2 \in eHeld[g2] : eMsg[p1] = g1 /\ eMsg[p2] = g2
  /\ ePool # {}
  /\ eAlloc = Ptrs

(***************************************************************************)
(* C21: every entry handed out by the pool, new or reclaimed, is in the    *)
(* same cleared state: zero level, empty message, no fields; a reclaimed   *)
(* entry cannot be told from a new one.                                    *)
(***************************************************************************)
AcquiredEntryIsZero ==
  /\ \A o \in eGot :
       /\ o.level = ZeroLevel
       /\ o.msg = NoMsg
       /\ o.fields \in {"nil", "empty"}
  /\ \A o1, o2 \in eGot :
       /\ o1.level = o2.level
       /\ o1.msg = o2.msg
       /\ o1.fields = o2.fields

(***************************************************************************)
(* AsyncHandler constructed with any worker count, zero included           *)
(***************************************************************************)
InitAsyncAny ==
  /\ \E workers \in 0..NumWorkers : NewAsyncHandlerWith(workers)
  /\ InitPool
  /\ InitEntries("nil")
  /\ IdleBreaker
  /\ IdleRotating
  /\ IdleRest

SpecAsyncAny == InitAsyncAny /\ [][NextAsync]_vars

(***************************************************************************)
(* C22: an AsyncHandler built with zero workers is refused at              *)
(* construction, so that no dispatcher without workers ever accepts an     *)
(* event into its queue.                                                   *)
(***************************************************************************)
ZeroWorkersRefused ==
  (\A w \in Workers : aWorker[w].pc = "unstarted") =>
     \A c \in Calls : aCall[c].path # "queued"

(***************************************************************************)
(* MultiHandler                                                            *)
(***************************************************************************)
NextErrOverwrite(lastErr, i, out) == IF out = "fail" THEN i ELSE 0

\* if err := handler.Handle(entry); err != nil { lastErr = err }
\* an error is named by the position of the handler that returned it, nil
\* is 0
NextErr(lastErr, i, out) == IF out = "fail" THEN i ELSE lastErr

\* the loop over h.handlers from position i on
RECURSIVE MultiLoop(_, _, _, _)
MultiLoop(hs, outs, i, acc) ==
  IF i > Len(hs) THEN acc
  ELSE MultiLoop(hs, outs, i + 1,
                 [invoked |-> Append(acc.invoked, hs[i]),
                  lastErr |-> NextErr(acc.lastErr, i, outs[i])])

\* Handle under h.mu.RLock; outs are the results the handlers return
MultiHandle(outs) ==
  LET run == MultiLoop(mHandlers, outs, 1, [invoked |-> <<>>, lastErr |-> 0])
  IN
  /\ mLast' = [called |-> TRUE, handlers |-> mHandlers, invoked |-> run.invoked,
               outs |-> outs, ret |-> run.lastErr]
  /\ UNCHANGED <<mHandlers, notMulti>>

\* AddHandler: append under h.mu.Lock
AddHandler(s) ==
  /\ Len(mHandlers) < MaxHandlers
  /\ mHandlers' = Append(mHandlers, s)
  /\ UNCHANGED <<mLast, notMulti>>

\* RemoveHandler: the first occurrence of the handler is cut out
RemoveHandler(s) ==
  /\ \E i \in 1..Len(mHandlers) :
       /\ mHandlers[i] = s
       /\ \A j \in 1..(i - 1) : mHandlers[j] # s
       /\ mHandlers' = SubSeq(mHandlers, 1, i - 1) \o
                       SubSeq(mHandlers, i + 1, Len(mHandlers))
  /\ UNCHANGED <<mLast, notMulti>>

InitMulti ==
  /\ \E s \in Sinks : NewMultiHandler(<<s>>)
  /\ IdleAsync
  /\ IdleBreaker
  /\ IdleRotating
  /\ IdleSampling
  /\ IdleHealth
  /\ InitHolders
  /\ IdleLogger
  /\ IdleBuffers

NextMulti ==
  \/ \E outs \in [1..Len(mHandlers) -> Outcomes] : MultiHandle(outs)
  \/ \E s \in Sinks : AddHandler(s)
  \/ \E s \in Sinks : RemoveHandler(s)

SpecMulti == InitMulti /\ [][NextMulti]_vars

(***************************************************************************)
(* C23: MultiHandler.Handle invokes every registered handler once, in      *)
(* registration order, whatever the earlier handlers returned, and returns *)
(* nil exactly when all of them returned nil.                              *)
(***************************************************************************)
MultiDeliversToAll ==
  mLast.called =>
    /\ mLast.invoked = mLast.handlers
    /\ (mLast.ret = 0) <=> (\A i \in 1..Len(mLast.outs) : mLast.outs[i] = "ok")

MultiDeliversToAllWitness ==
  /\ mLast.called
  /\ Len(mLast.handlers) = MaxHandlers
  /\ mLast.outs[1] = "fail"
  /\ mLast.outs[MaxHandlers] = "ok"
  /\ mLast.ret # 0

(***************************************************************************)
(* logger: level filtering of log / logf / logFast, calls made one at a    *)
(* time, with a handler that handles synchronously                         *)
(***************************************************************************)
LogLevels == {DebugLevel, InfoLevel, WarnLevel, ErrorLevel}

Variants == {"log", "logf", "logFast"}

FilteredInclusive(level, loggerLevel) == level <= loggerLevel

\* if level.Value < l.level.Value { return }
Filtered(level, loggerLevel) == level < loggerLevel

\* l.level = level
SetLevel(level) ==
  /\ lLevel' = level
  /\ UNCHANGED <<lHandler, lLast, poolVars, entVars, notLogger>>

\* l.handler = handler
SetHandler(handler) ==
  /\ lHandler' = handler
  /\ UNCHANGED <<lLevel, lLast, poolVars, entVars, notLogger>>

\* one whole call of log, logf or logFast (the three bodies differ only in
\* how the message is built): the level test, getEntryFromPool, the fill,
\* handler.Handle when a handler is set, putEntryToPool
LoggerLog(variant, level) ==
  IF Filtered(level, lLevel)
  THEN /\ lLast' = [variant |-> variant, level |-> level, at |-> lLevel,
                    handler |-> lHandler, invoked |-> 0, seen |-> ZeroLevel]
       /\ UNCHANGED <<lLevel, lHandler, poolVars, entVars, notLogger>>
  ELSE /\ \E ptr \in PoolGet :
            /\ eGot' = eGot \cup {Got(ptr)}
            /\ eAlloc' = eAlloc \cup {ptr}
            /\ ePool' = ePool \cup {ptr}
            /\ eMsg' = [eMsg EXCEPT ![ptr] = NoMsg]
            /\ eLevel' = [eLevel EXCEPT ![ptr] = InfoLevel]
            /\ eFields' = [eFields EXCEPT ![ptr] = "nil"]
       /\ lLast' = [variant |-> variant, level |-> level, at |-> lLevel,
                    handler |-> lHandler,
                    invoked |-> IF lHandler # "nil" THEN 1 ELSE 0,
                    seen |-> IF lHandler # "nil" THEN level ELSE ZeroLevel]
       /\ UNCHANGED <<lLevel, lHandler, lPend, notLogger>>

InitLogger ==
  /\ NewLogger
  /\ IdleAsync
  /\ IdleBreaker
  /\ IdleRotating
  /\ IdleSampling
  /\ IdleHealth
  /\ InitHolders
  /\ IdleMulti
  /\ IdleBuffers

NextLogger ==
  \/ \E level \in LogLevels : SetLevel(level)
  \/ \E handler \in {"nil", "console"} : SetHandler(handler)
  \/ \E variant \in Variants, level \in LogLevels : LoggerLog(variant, level)

SpecLogger == InitLogger /\ [][NextLogger]_vars

(***************************************************************************)
(* C24: a log call (plain, formatted or Fast) invokes the logger's handler *)
(* exactly once, with the call's level, when that level is at or above the *)
(* logger's level, and not at all when it is below.                        *)
(***************************************************************************)
LevelFiltering ==
  (lLast.variant # "none" /\ lLast.handler # "nil") =>
     /\ lLast.level >= lLast.at => lLast.invoked = 1 /\ lLast.seen = lLast.level
     /\ lLast.level < lLast.at => lLast.invoked = 0

LevelFilteringWitness ==
  /\ lLast.variant = "logFast"
  /\ lLast.level = WarnLevel
  /\ lLast.at = WarnLevel
  /\ lLast.invoked = 1
  /\ lLevel = ErrorLevel

(***************************************************************************)
(* The state-change callback                                               *)
(***************************************************************************)
\* the callback invocations made during the i-th sequential call
EventsOfCall(i) ==
  SubSeq(cbLog[i].post.events, Len(cbLog[i].pre.events) + 1,
         Len(cbLog[i].post.events))

\* the changes of cb.state during the i-th sequential call: at the open
\* check (pre to mid) and at the recording of the outcome (mid to post)
TransitionsOfCall(i) ==
  (IF cbLog[i].pre.state # cbLog[i].mid.state
   THEN << <<cbLog[i].pre.state, cbLog[i].mid.state>> >> ELSE <<>>)
  \o
  (IF cbLog[i].mid.state # cbLog[i].post.state
   THEN << <<cbLog[i].mid.state, cbLog[i].post.state>> >> ELSE <<>>)

(***************************************************************************)
(* C25: the callback is invoked once for every state transition, with the  *)
(* from and to states of that transition, inside the Execute call that     *)
(* made the transition: when the call has returned, the invocations made   *)
(* during it are exactly its transitions, in order, and none is made       *)
(* outside a call.                                                         *)
(***************************************************************************)
CallbackPerTransition ==
  /\ \A i \in 1..Len(cbLog) : EventsOfCall(i) = TransitionsOfCall(i)
  /\ cb.events = IF cbLog = <<>> THEN <<>> ELSE cbLog[Len(cbLog)].post.events
  /\ \A i \in 1..(Len(cbLog) - 1) : cbLog[i + 1].pre.events = cbLog[i].post.events

CallbackPerTransitionWitness ==
  /\ Len(cb.events) = 4
  /\ cb.events[1] = <<"closed", "open">>
  /\ cb.events[2] = <<"open", "half-open">>
  /\ cb.events[3] = <<"half-open", "closed">>
  /\ cb.events[4] = <<"closed", "open">>
  /\ cb.state = "open"

(***************************************************************************)
(* C26: every read and write of state, failure count and last-failure time *)
(* is made holding cb.mu, the cool-down check and the open to half-open    *)
(* transition of Execute included, so that no caller is about to write the *)
(* state without the lock while another caller is inside Execute with an   *)
(* access to it still to come.                                             *)
(***************************************************************************)
AllAccessUnderLock ==
  /\ cbUnlocked = {}
  /\ \A k1, k2 \in Callers :
       (k1 # k2 /\ cbCaller[k1].pc = "check" /\ cbCaller[k1].seen = "open"
          /\ CoolDownElapsed(cb, now)) =>
         cbCaller[k2].pc \notin {"check", "fn"}

\* the state changes the breaker's rules allow
LegalTransitions ==
  {<<"closed", "open">>, <<"open", "half-open">>, <<"half-open", "closed">>,
   <<"half-open", "open">>}

(***************************************************************************)
(* C27: under concurrent Execute calls every setState application is one   *)
(* of closed to open, open to half-open, half-open to closed, half-open to *)
(* open; in particular never closed to half-open and never from a state to *)
(* itself.                                                                 *)
(***************************************************************************)
OnlyLegalTransitions ==
  \A i \in 1..Len(cb.events) : cb.events[i] \in LegalTransitions

\* the names for which GetHealth returns a result: a copy of hm.results
GetHealth == {n \in Names : hResults[n] # NoResult}

\* hm.results without the entries of the names in gone
Without(results, gone) == [n \in Names |-> IF n \in gone THEN NoResult ELSE results[n]]

(***************************************************************************)
(* C28: once a check has been removed and no probe of it is in flight,     *)
(* GetHealth has no result under its name and GetOverallHealth is what it  *)
(* would be without that check's last result.                              *)
(***************************************************************************)
RemovedCheckForgotten ==
  LET gone == {n \in Names : hChecks[n] = "none"
                             /\ \A pr \in hProbes : pr.name # n}
  IN /\ GetHealth \cap gone = {}
     /\ GetOverallHealth(hResults) = GetOverallHealth(Without(hResults, gone))

(***************************************************************************)
(* CircuitBreaker whose callback calls back into the breaker               *)
(***************************************************************************)
InitBreakerAny ==
  /\ \E m \in 1..MaxThreshold, callback \in {"plain", "reentrant"} :
       NewCircuitBreakerWith(m, callback)
  /\ IdleAsync
  /\ IdleRotating
  /\ IdleRest

\* fn returns and every goroutine inside Execute is scheduled
SpecBreakerAnyLive ==
  /\ InitBreakerAny
  /\ [][NextBreaker]_vars
  /\ \A k \in Callers :
       /\ WF_vars(ExecReject(k))
       /\ WF_vars(ExecEnter(k))
       /\ WF_vars(ExecFinish(k))

(***************************************************************************)
(* C29: every Execute call returns, also when the state-change callback    *)
(* calls back into the same breaker.                                       *)
(***************************************************************************)
ExecuteAlwaysReturns ==
  \A k \in Callers : (cbCaller[k].pc # "idle") ~> (cbCaller[k].pc = "idle")

(***************************************************************************)
(* C30: the breaker leaves open only inside an Execute call made when the  *)
(* time since the last failure strictly exceeds the cool-down. While no    *)
(* call is made it stays open however much time passes, a call at or       *)
(* before the cool-down is rejected and leaves it open, and the call that  *)
(* finds the cool-down elapsed sets half-open and invokes the operation.   *)
(***************************************************************************)
LeavesOpenOnlyInLateCall ==
  /\ [][(cb.state = "open" /\ cb'.state # "open") =>
          /\ Len(cbLog') = Len(cbLog) + 1
          /\ LET call == cbLog'[Len(cbLog')] IN
             /\ call.pre = cb
             /\ call.at - call.pre.lastFailure > CoolDown
             /\ call.mid.state = "half-open"
             /\ call.invoked]_vars
  /\ [][(cb.state = "open" /\ cbLog' = cbLog) => cb' = cb]_vars
  /\ [](\A i \in 1..Len(cbLog) :
          cbLog[i].pre.state = "open" =>
            IF cbLog[i].at - cbLog[i].pre.lastFailure > CoolDown
            THEN /\ cbLog[i].mid.state = "half-open"
                 /\ cbLog[i].mid.events =
                      Append(cbLog[i].pre.events, <<"open", "half-open">>)
                 /\ cbLog[i].invoked
            ELSE /\ cbLog[i].res = "open"
                 /\ cbLog[i].post = cbLog[i].pre)

\* a call exactly at the cool-down was rejected; the breaker then stayed
\* open past the cool-down until a later call made the trial
LeavesOpenOnlyInLateCallWitness ==
  \E i \in 1..Len(cbLog) : \E j \in (i + 1)..Len(cbLog) :
    /\ cbLog[i].res = "open"
    /\ cbLog[i].at - cbLog[i].pre.lastFailure = CoolDown
    /\ cbLog[j].pre.state = "open"
    /\ cbLog[j].at - cbLog[j].pre.lastFailure > CoolDown + 1
    /\ cbLog[j].mid.state = "half-open"
    /\ cbLog[j].invoked

(***************************************************************************)
(* C31: Handle rotates before the append if and only if                    *)
(* currentSize + len(formatted) + 1 > maxSize, so a sum equal to maxSize   *)
(* does not rotate; a call that does not rotate appends to the active file *)
(* as it is, a call that rotates appends to a fresh one, and the size      *)
(* counter grows by exactly len(formatted) + 1 with the append.            *)
(***************************************************************************)
RotatesIffExceeds ==
  [][rWritten' = rWritten + 1 =>
       LET data == rFiles'[0].data
           ev == data[Len(data)]
           rotated == Len(rLog') = Len(rLog) + 1
       IN
       /\ rRet'[Len(rRet')].ret = "ok"
       /\ rotated <=> rSize + ev[2] + 1 > RotMaxSize
       /\ rotated => /\ data = <<ev>>
                     /\ rFiles'[1] = rFiles[0]
       /\ ~rotated => rFiles' = [rFiles EXCEPT ![0].data = Append(@, ev)]
       /\ rSize' = (IF rotated THEN 0 ELSE rSize) + ev[2] + 1]_vars

\* after a rotation, a second event has filled the active file to exactly
\* maxSize without rotating
RotatesIffExceedsWitness ==
  /\ Len(rLog) >= 1
  /\ Len(rFiles[0].data) = 2
  /\ rSize = RotMaxSize
  /\ rFiles[1].exists
  /\ rFiles[0].data[1][1] = rFiles[1].data[Len(rFiles[1].data)][1] + 1

(***************************************************************************)
(* RotatingFileHandler whose renames may fail: rotate ignores the error    *)
(* os.Rename returns. renOk[i] says whether the rename of filename.i       *)
(* (filename itself for i = 0) succeeds.                                   *)
(***************************************************************************)
\* if _, err := os.Stat(a); err == nil { os.Rename(a, b) }, error ignored
RenameIO(fs, a, b, ok) ==
  IF fs[a].exists /\ ok THEN [fs EXCEPT ![b] = fs[a], ![a] = NoFile] ELSE fs

RECURSIVE ShiftUpIO(_, _, _)
ShiftUpIO(fs, i, renOk) ==
  IF i <= 0 THEN fs ELSE ShiftUpIO(RenameIO(fs, i, i + 1, renOk[i]), i - 1, renOk)

rotateRenamesIO(fs, maxFiles, renOk) ==
  RenameIO(ShiftUpIO(fs, maxFiles - 1, renOk), 0, 1, renOk[0])

\* the size check, and rotate when it asks for one: the renames, then
\* openFile, which sets currentSize to the size of the file it opened
RotatingCheckIO(g, renOk) ==
  LET rotates == NeedsRotation(rSize, rG[g].ev[2])
      opened == IF rotates
                THEN OpenFile(rotateRenamesIO(rFiles, rMaxFiles, renOk), TRUE)
                ELSE rFiles
  IN
  /\ rG[g].pc = "check"
  /\ rFiles' = opened
  /\ rHandle' = IF rotates THEN "open" ELSE rHandle
  /\ rSize' = IF rotates THEN DataSize(opened[0].data) ELSE rSize
  /\ rLog' = IF rotates THEN Append(rLog, rFiles[0].data) ELSE rLog
  /\ rG' = [rG EXCEPT ![g].pc = "append", ![g].snap = opened[0].data]
  /\ UNCHANGED <<rMaxFiles, rWritten, rClosed, rRet, rMu, rOrder, notRotating>>

NextRotatingRen ==
  \/ \E g \in Writers, len \in ConcLens : RotatingLock(g, len)
  \/ \E g \in Writers, renOk \in [FileIdx -> BOOLEAN] : RotatingCheckIO(g, renOk)
  \/ \E g \in Writers : RotatingAppend(g)

SpecRotatingRen == InitRotatingConc /\ [][NextRotatingRen]_vars

(***************************************************************************)
(* C32: right after a rotation and before the append, the previous active  *)
(* content is at filename.1, the previous content of each filename.i with  *)
(* 1 <= i < maxFiles is at filename.(i+1), the active file is fresh and    *)
(* empty and the size counter is 0, also when a rename failed.             *)
(***************************************************************************)
StateAfterRotation ==
  [][Len(rLog') = Len(rLog) + 1 =>
       /\ rFiles'[1] = rFiles[0]
       /\ \A i \in 1..(rMaxFiles - 1) : rFiles[i].exists => rFiles'[i + 1] = rFiles[i]
       /\ rFiles'[0] = File(<<>>)
       /\ rSize' = 0]_vars

(***************************************************************************)
(* C33: an event whose formatted length plus separator exceeds maxSize is  *)
(* written in full: Handle rotates once, appends the whole event to the    *)
(* fresh active file and returns success; the size counter is then above   *)
(* maxSize, and the next Handle rotates again.                             *)
(***************************************************************************)
OversizeEventWritten ==
  [][rWritten' = rWritten + 1 =>
       LET data == rFiles'[0].data
           call == rRet'[Len(rRet')]
       IN
       /\ call.ret = "ok"
       /\ data # <<>>
       /\ data[Len(data)][1] = rWritten'
       /\ data[Len(data)][2] + 1 > RotMaxSize =>
            /\ Len(rLog') = Len(rLog) + 1
            /\ rFiles'[1] = rFiles[0]
            /\ data = << <<rWritten', data[1][2]>> >>
            /\ rSize' = data[1][2] + 1
            /\ rSize' > RotMaxSize
       /\ rSize > RotMaxSize => Len(rLog') = Len(rLog) + 1]_vars

\* two oversize events in a row: the first is alone in filename.1, the
\* second alone in filename
OversizeEventWrittenWitness ==
  /\ rSize > RotMaxSize
  /\ Len(rFiles[0].data) = 1
  /\ rFiles[0].data[1][1] = rWritten
  /\ rFiles[1].exists
  /\ Len(rFiles[1].data) = 1
  /\ rFiles[1].data[1][1] = rWritten - 1
  /\ rFiles[1].data[1][2] + 1 > RotMaxSize
  /\ rRet[Len(rRet)].ret = "ok"

(***************************************************************************)
(* SamplingHandler over a wrapped handler that may fail                    *)
(***************************************************************************)
SamplingReturnSwallowed(skipped, out) == "ok"

\* what Handle returns: nil for a skipped entry, else h.handler.Handle(entry)
SamplingReturn(skipped, out) == IF skipped THEN "ok" ELSE out

\* one whole Handle call; out is what the wrapped handler returns if called
SamplingHandleOut(out) ==
  LET c == sCounter + 1
      skipped == Skips(sRate, c)
  IN
  /\ sStarted < MaxSampleOut
  /\ sStarted' = sStarted + 1
  /\ sCounter' = c
  /\ skipped => out = "ok"
  /\ sDone' = Append(sDone, [saw |-> c, used |-> c, fwd |-> ~skipped,
                             before |-> sCounter,
                             invoked |-> IF skipped THEN 0 ELSE 1,
                             out |-> IF skipped THEN "none" ELSE out,
                             ret |-> SamplingReturn(skipped, out)])
  /\ UNCHANGED <<sRate, sMu, sG, notSampling>>

NextSamplingOut == \E out \in Outcomes : SamplingHandleOut(out)

SpecSamplingOut == InitSampling /\ [][NextSamplingOut]_vars

(***************************************************************************)
(* C34: a suppressed call returns success without invoking the wrapped     *)
(* handler, a forwarded call invokes it exactly once and returns its       *)
(* outcome unchanged, and the counter advances by exactly one per call,    *)
(* also when the wrapped handler fails.                                    *)
(***************************************************************************)
SamplingPropagates ==
  /\ sCounter = Len(sDone)
  /\ \A i \in 1..Len(sDone) :
       /\ sDone[i].saw = sDone[i].before + 1
       /\ sDone[i].before = i - 1
       /\ \/ sDone[i].invoked = 0 /\ sDone[i].ret = "ok" /\ ~sDone[i].fwd
          \/ sDone[i].invoked = 1 /\ sDone[i].ret = sDone[i].out /\ sDone[i].fwd

\* a forwarded call whose wrapped handler failed, then a suppressed call
SamplingPropagatesWitness ==
  \E i \in 1..Len(sDone) : \E j \in (i + 1)..Len(sDone) :
    /\ sDone[i].fwd /\ sDone[i].out = "fail" /\ sDone[i].ret = "fail"
    /\ ~sDone[j].fwd /\ sDone[j].ret = "ok"

(***************************************************************************)
(* Execute seen by its caller: the error values. The rejection is          *)
(* fmt.Errorf("circuit breaker is open"), an error with no exported        *)
(* sentinel or type, so all a caller has of it is its text. The operation  *)
(* returns nil or any error, among them one with that text (a handler      *)
(* chain that holds another CircuitBreakerHandler whose breaker is open).  *)
(***************************************************************************)
RejectText == "circuit breaker is open"

OpErrors == {"nil", "write failed", RejectText}

\* one whole Execute call whose operation takes d ticks and returns err
ExecuteOp ==
  /\ Len(cbLog) < MaxExec
  /\ \E err \in OpErrors, d \in 0..1 :
       LET rejected == cb.state = "open" /\ ~CoolDownElapsed(cb, now)
           mid == IF cb.state = "open" /\ ~rejected
                  THEN setState(cb, "half-open") ELSE cb
           post == IF rejected THEN cb
                   ELSE IF err = "nil" THEN recordSuccess(mid)
                   ELSE recordFailure(mid, now + d)
       IN
       /\ now + d <= EndTime
       /\ rejected => (err = "nil" /\ d = 0)
       /\ cb' = post
       /\ now' = now + d
       /\ cbLog' = Append(cbLog,
            [at |-> now, end |-> now + d, pre |-> cb, mid |-> mid, post |-> post,
             invoked |-> ~rejected, opErr |-> IF rejected THEN "none" ELSE err,
             ret |-> IF rejected THEN RejectText ELSE err])
  /\ UNCHANGED <<cbMaxFailures, cbCaller, cbStarted, cbCallback, cbMu,
                 cbUnlocked, notBreaker>>

NextBreakerErr ==
  \/ ExecuteOp
  \/ Tick

SpecBreakerErr == InitBreaker /\ [][NextBreakerErr]_vars

(***************************************************************************)
(* C35: Execute returns the breaker-open outcome if and only if it did not *)
(* invoke the operation, and a call that invokes the operation returns the *)
(* operation's outcome unchanged.                                          *)
(***************************************************************************)
RejectionIsDistinct ==
  \A i \in 1..Len(cbLog) :
    /\ cbLog[i].ret = RejectText <=> ~cbLog[i].invoked
    /\ cbLog[i].invoked => cbLog[i].ret = cbLog[i].opErr

(***************************************************************************)
(* HealthMonitor started with checks whose probes may overlap: runChecks   *)
(* starts a runCheck goroutine per tick and waits for none of them         *)
(***************************************************************************)
\* the checks named in ns registered, each a probe that may return any status
AnyChecks(ns) == [m \in Names |-> IF m \in ns THEN "any" ELSE "none"]

InitHealthOverlap ==
  /\ \E ns \in (SUBSET Names) \ {{}} : NewHealthMonitor(AnyChecks(ns), "running")
  /\ IdleAsync
  /\ IdleBreaker
  /\ IdleRotating
  /\ IdleSampling
  /\ InitHolders
  /\ IdleExtra

NextHealthOverlap ==
  \/ TickerFire(MaxRounds)
  \/ MonitorRound
  \/ \E pr \in hProbes : ProbeExpire(pr)
  \/ ProbeReturns

SpecHealthOverlap == InitHealthOverlap /\ [][NextHealthOverlap]_vars

\* the probes of a name launched by the tick of a round that are running
RunningOf(probes, n, round) == {q \in probes : q.name = n /\ q.round = round}

(***************************************************************************)
(* C36: the result kept under a name is that of the latest execution of    *)
(* the check: when a probe stores its result, no probe of the same name    *)
(* launched by a later tick has stored its result already.                 *)
(***************************************************************************)
LatestResultKept ==
  [][\A pr \in hProbes :
       RunningOf(hProbes', pr.name, pr.round) = {} =>
         \A later \in (pr.round + 1)..hRounds :
           RunningOf(hProbes, pr.name, later) # {}]_vars

(***************************************************************************)
(* BufferPool operations. A buffer is [id, cap, len]: its backing array,   *)
(* its capacity and the length of the slice.                               *)
(***************************************************************************)
\* Put's test: if cap(buf) > bp.maxSize { return }
TooLarge(buf, maxSize) == buf.cap > maxSize

\* Get: bp.pool.Get() gives a pooled buffer or, the pool being empty or
\* choosing to act as empty, a fresh one from New; Get returns buf[:0]
BufGet ==
  /\ \/ \E b \in bpPool :
          /\ bpPool' = bpPool \ {b}
          /\ bpHeld' = bpHeld \cup {[b EXCEPT !.len = 0]}
          /\ UNCHANGED bpAllocs
     \/ /\ bpAllocs < MaxBufs
        /\ bpAllocs' = bpAllocs + 1
        /\ bpHeld' = bpHeld \cup {[id |-> bpAllocs + 1, cap |-> NewCap, len |-> 0]}
        /\ UNCHANGED bpPool
  /\ UNCHANGED <<bpMaxSize, bpDropped, notBuffers>>

\* the caller appends to a buffer it holds, within its capacity
BufWrite(b) ==
  /\ b \in bpHeld
  /\ b.len = 0
  /\ bpHeld' = (bpHeld \ {b}) \cup {[b EXCEPT !.len = b.cap]}
  /\ UNCHANGED <<bpMaxSize, bpPool, bpAllocs, bpDropped, notBuffers>>

\* Put(buf): the buffer is pooled unless it is too large
BufPut(b) ==
  /\ b \in bpHeld
  /\ bpHeld' = bpHeld \ {b}
  /\ IF TooLarge(b, bpMaxSize)
     THEN bpDropped' = bpDropped \cup {b} /\ UNCHANGED bpPool
     ELSE bpPool' = bpPool \cup {b} /\ UNCHANGED bpDropped
  /\ UNCHANGED <<bpMaxSize, bpAllocs, notBuffers>>

\* the pool of NewHighPerformanceLogger(DefaultPerformanceConfig()), and one
\* whose maxSize admits the buffers New makes
InitBuffers ==
  /\ \E maxSize \in {DefaultBufferPoolSize, NewCap} : NewBufferPool(maxSize)
  /\ IdleAsync
  /\ IdleBreaker
  /\ IdleRotating
  /\ IdleSampling
  /\ IdleHealth
  /\ InitHolders
  /\ IdleMulti
  /\ IdleLogger

NextBuffers ==
  \/ BufGet
  \/ \E b \in bpHeld : BufWrite(b)
  \/ \E b \in bpHeld : BufPut(b)

SpecBuffers == InitBuffers /\ [][NextBuffers]_vars

(***************************************************************************)
(* C37: Put makes every buffer that Get handed out available to a future   *)
(* Get, the freshly allocated ones under the default configuration         *)
(* included; Get returns a buffer of length 0, and never blocks when the   *)
(* pool is empty.                                                          *)
(***************************************************************************)
PutMakesAvailable ==
  /\ [](bpDropped = {})
  /\ [][\A b \in bpHeld :
          (\A h \in bpHeld' : h.id # b.id) => \E q \in bpPool' : q.id = b.id]_vars
  /\ [][\A b \in bpHeld' :
          (\A q \in bpHeld : q.id # b.id) => b.len = 0]_vars
  /\ []((bpPool = {} /\ bpAllocs < MaxBufs) => ENABLED BufGet)

\* the events of the files filename.i, ..., filename.1, filename of a
\* directory, read in that order
RECURSIVE ReadFrom(_, _)
ReadFrom(fs, i) == IF i < 0 THEN <<>> ELSE fs[i].data \o ReadFrom(fs, i - 1)

\* the events of a read that this handler wrote (the others were on disk
\* when it was constructed)
RECURSIVE Own(_)
Own(seq) ==
  IF seq = <<>> THEN <<>>
  ELSE IF Head(seq)[1] >= 1 THEN <<Head(seq)>> \o Own(Tail(seq))
  ELSE Own(Tail(seq))

(***************************************************************************)
(* C38: with no I/O failure, filename.k, ..., filename.1, filename read in *)
(* that order hold a contiguous suffix of the handled events, in handling  *)
(* order and each once; a call that does not rotate loses no event and a   *)
(* rotation loses only events of the oldest retained file.                 *)
(***************************************************************************)
DiskIsSuffixOfEvents ==
  /\ [](LET disk == ReadFrom(rFiles, rMaxFiles)
            own == Own(disk)
        IN /\ \A i, j \in 1..Len(disk) : i < j => disk[i][1] < disk[j][1]
           /\ \A j \in 1..Len(own) : own[j][1] = rWritten - Len(own) + j
           /\ rWritten > 0 => Len(own) > 0)
  /\ [][rWritten' = rWritten + 1 =>
          LET before == EventsOf(ReadFrom(rFiles, rMaxFiles))
              after == EventsOf(ReadFrom(rFiles', rMaxFiles))
              lost == before \ after
          IN /\ after \ before = {ReadFrom(rFiles', 0)[Len(rFiles'[0].data)]}
             /\ lost # {} => Len(rLog') = Len(rLog) + 1
             /\ lost \subseteq EventsOf(rFiles[rMaxFiles].data)]_vars

\* three files full of this handler's events, after the oldest were discarded
DiskIsSuffixOfEventsWitness ==
  /\ rMaxFiles = 2
  /\ Len(rLog) >= 3
  /\ \A i \in 0..2 : rFiles[i].exists /\ rFiles[i].data # <<>>
  /\ Len(rFiles[1].data) = 2
  /\ Own(ReadFrom(rFiles, 2))[1][1] > 1
  /\ Own(ReadFrom(rFiles, 2)) = ReadFrom(rFiles, 2)

(***************************************************************************)
(* AsyncHandler with a single worker and a single producer, never stopped  *)
(***************************************************************************)
InitAsyncOne ==
  /\ NewAsyncHandlerWith(1)
  /\ InitPool
  /\ InitEntries("nil")
  /\ IdleBreaker
  /\ IdleRotating
  /\ IdleRest

\* the one worker start launched
TheWorker == CHOOSE w \in Workers : aWorker[w].pc # "unstarted"

NextAsyncOne ==
  \/ DirectHandle
  \/ WorkerRecv(TheWorker)
  \/ WorkerHandle(TheWorker)

SpecAsyncOne == InitAsyncOne /\ [][NextAsyncOne]_vars

(***************************************************************************)
(* C39: with one worker and one producer the wrapped handler receives the  *)
(* events in the order of the Handle calls: no event is delivered while an *)
(* event of an earlier call is still waiting to be delivered.              *)
(***************************************************************************)
DeliveredInCallOrder ==
  \A c \in Calls : \A earlier \in 1..(c - 1) :
    aCall[c].count > 0 => aCall[earlier].count > 0

(***************************************************************************)
(* C40: under any interleaving of Execute calls on a breaker with          *)
(* maxFailures >= 1, in every reachable state, a closed breaker has a      *)
(* failure count below maxFailures.                                        *)
(***************************************************************************)
ClosedBelowThreshold ==
  (cbMaxFailures >= 1 /\ cb.state = "closed") => cb.failures < cbMaxFailures

\* one failure short of the threshold on a closed breaker, while another
\* call that entered concurrently is still running its operation
ClosedBelowThresholdWitness ==
  /\ cb.state = "closed"
  /\ cbMaxFailures >= 2
  /\ cb.failures = cbMaxFailures - 1
  /\ \E k \in Callers : cbCaller[k].pc = "fn"
  /\ \E k \in Callers : cbCaller[k].pc = "idle"

====
